---- MODULE Spec2Model ----
(***************************************************************************)
(* Sandbox API Broker: the allocation state machine over the DynamoDB      *)
(* table (app/db/dynamodb.py), the allocation service                      *)
(* (app/services/allocation.py), the admin service (app/services/admin.py) *)
(* and the background jobs (app/jobs/scheduler.py).                        *)
(*                                                                         *)
(* Time is counted in units of one grace period (grace_period_minutes*60   *)
(* seconds), so that lab_duration_seconds is 8 units with the default      *)
(* configuration.  Python None is 0 for the numeric fields and for owner   *)
(* and key (both are falsy in the code's tests).                           *)
(***************************************************************************)
EXTENDS Integers, Sequences, FiniteSets, TLC

\* ---------------------------------------------------------------- bounds
NumSandboxes == 2
NumOwners == 2
NumClients == 2
BurstClients == 3
MaxK == 2
MaxTime == 2
MaxRequests == 4
SyncRequests == 2
NumKeyed == 1
StoreSpan == 2
MaxRuns == 2
MaxBatch == 2
ExpirySpan == 3
ExpiryRequests == 3
LoopRequests == 1
NumCallers == 2
MaxThreshold == 2
MaxTimeout == 2
BreakerCalls == 5
BreakerSpan == 4
MaxTtl == 2
GaugeRequests == 4
GaugeSpan == 4
FaultRequests == 3
WindowSpan == 2

SandboxIds == 1..NumSandboxes
Owners == 1..NumOwners
Clients == 1..NumClients
Tasks == 1..(IF BurstClients > NumClients THEN BurstClients ELSE NumClients)

\* ------------------------------------------------- settings (config.py)
lab_duration_hours == 4
grace_period_minutes == 30
TimeUnit == grace_period_minutes * 60
lab_duration_seconds == (lab_duration_hours * 3600) \div TimeUnit
grace_period_seconds == (grace_period_minutes * 60) \div TimeUnit
expiry_threshold_seconds == lab_duration_seconds + grace_period_seconds

\* --------------------------------------------------------- Sandbox model
NoOwner == 0
NoKey == 0
Absent == [status |-> "absent", allocated_to_track |-> NoOwner, allocated_at |-> 0,
           idempotency_key |-> NoKey, deletion_requested_at |-> 0,
           deletion_retry_count |-> 0, lab_duration_hours |-> 0]

\* Sandbox(...) with the constructor's defaults (models/sandbox.py)
NewSandbox(st) ==
    [status |-> st, allocated_to_track |-> NoOwner, allocated_at |-> 0,
     idempotency_key |-> NoKey, deletion_requested_at |-> 0,
     deletion_retry_count |-> 0, lab_duration_hours |-> 4]

\* An explicit Idempotency-Key header of owner o; the default key is o itself.
\* Owners 1..NumKeyed may send one; NoKey is a request without the header.
ExplicitKey(o) == 0 - o
KeyChoices(o) == IF o <= NumKeyed THEN {NoKey, ExplicitKey(o)} ELSE {NoKey}

is_expired(sb, current_time, grace_minutes) ==
    IF sb.allocated_at # 0 /\ sb.status = "allocated"
    THEN current_time >
           sb.allocated_at + ((sb.lab_duration_hours * 3600) \div TimeUnit)
                           + ((grace_minutes * 60) \div TimeUnit)
    ELSE FALSE

\* Variant: the owner is compared, the status is not
is_owned_by_any_status(sb, track_id) ==
    sb.allocated_to_track = track_id

is_owned_by(sb, track_id) ==
    sb.status = "allocated" /\ sb.allocated_to_track = track_id

\* ------------------------------------------------------ state variables
VARIABLES
    now,           \* time.time(), in time units
    k_candidates,  \* settings.k_candidates
    store,         \* the DynamoDB table: sandbox_id -> item, or Absent
    req,           \* the client tasks: the request in flight or the last response
    budget,        \* number of client requests that may still be started
    grants,        \* sandbox_id -> the allocation last handed out and not released
    upstream,      \* the sandbox accounts that are active in the ENG CSP tenant
    sync,          \* the run of trigger_sync in progress
    horizon,       \* the time at which the observation ends
    cleanup_batch_size,  \* settings.cleanup_batch_size
    expiry,        \* the run of auto_expiry_job in progress
    cleanup,       \* the run of trigger_cleanup in progress
    bulk,          \* the run of bulk_delete_by_status in progress
    breaker,       \* eng_csp_circuit_breaker
    calls,         \* the calls made through the breaker by its callers
    loops,         \* the scheduler's tasks and its shutdown event
    gauges         \* _pool_gauges_cache and the pool gauges (core/metrics.py)

vars == <<now, k_candidates, store, req, budget, grants, upstream, sync,
          horizon, cleanup_batch_size, expiry, cleanup, bulk,
          breaker, calls, loops, gauges>>
envVars == <<now, k_candidates, upstream, horizon, cleanup_batch_size>>
jobVars == <<sync, expiry, cleanup, bulk>>
ctlVars == <<breaker, calls, loops, gauges>>

\* -------------------------------------------------- helpers on sequences
RECURSIVE Perms(_)
Perms(S) ==
    IF S = {} THEN {<<>>}
    ELSE UNION {{<<x>> \o p : p \in Perms(S \ {x})} : x \in S}

Min(a, b) == IF a < b THEN a ELSE b

\* ------------------------------------------ DynamoDBClient (dynamodb.py)
Items(st) == {sid \in SandboxIds : st[sid] # Absent}

get_sandbox(st, sandbox_id) == st[sandbox_id]

\* Variant: the query is issued with Limit=1 whatever k is
get_available_candidates_limit_one(st, k) ==
    LET avail == {sid \in Items(st) : st[sid].status = "available"}
    IN  IF avail = {} THEN {<<>>} ELSE {<<sid>> : sid \in avail}

\* Query on GSI1 (status, allocated_at) with Limit=k, then random.shuffle.
\* Available items all carry allocated_at = 0, so which k of them the query
\* returns is not determined; every choice and every order is possible.
get_available_candidates(st, k) ==
    LET avail == {sid \in Items(st) : st[sid].status = "available"}
        n == Min(k, Cardinality(avail))
    IN  UNION {Perms(S) : S \in {T \in SUBSET avail : Cardinality(T) = n}}

\* Variant: the condition is "not allocated" instead of "available"
atomic_allocate_unless_allocated(st, sandbox_id, track_id, idempotency_key, current_time) ==
    IF st[sandbox_id] # Absent /\ st[sandbox_id].status # "allocated"
    THEN LET item == [st[sandbox_id] EXCEPT !.status = "allocated",
                                            !.allocated_to_track = track_id,
                                            !.allocated_at = current_time,
                                            !.idempotency_key = idempotency_key]
         IN  [table |-> [st EXCEPT ![sandbox_id] = item], ret |-> item]
    ELSE [table |-> st, ret |-> Absent]

\* Conditional update: attribute_exists(PK) AND status = available.
\* Returns the new table and the returned item (Absent for None).
atomic_allocate(st, sandbox_id, track_id, idempotency_key, current_time) ==
    IF st[sandbox_id] # Absent /\ st[sandbox_id].status = "available"
    THEN LET item == [st[sandbox_id] EXCEPT !.status = "allocated",
                                            !.allocated_to_track = track_id,
                                            !.allocated_at = current_time,
                                            !.idempotency_key = idempotency_key]
         IN  [table |-> [st EXCEPT ![sandbox_id] = item], ret |-> item]
    ELSE [table |-> st, ret |-> Absent]

\* Query on GSI3 (idempotency_key, allocated_at) with Limit=1: the item of
\* that key with the smallest allocated_at (any of them on a tie); it is
\* returned only if its status is allocated.  The result is a sandbox id,
\* 0 for None.
find_allocation_by_idempotency_key(st, idempotency_key) ==
    LET items == {sid \in Items(st) : st[sid].idempotency_key = idempotency_key}
        first == {sid \in items :
                    \A o \in items : st[sid].allocated_at <= st[o].allocated_at}
    IN  IF items = {} THEN {0}
        ELSE {IF st[sid].status = "allocated" THEN sid ELSE 0 : sid \in first}

\* Variant: the expiry bound is inclusive (allocated_at >= max_expiry)
mark_for_deletion_inclusive(st, sandbox_id, track_id, current_time, max_expiry_time) ==
    IF /\ st[sandbox_id] # Absent
       /\ st[sandbox_id].status = "allocated"
       /\ st[sandbox_id].allocated_to_track = track_id
       /\ st[sandbox_id].allocated_at >= max_expiry_time
    THEN LET item == [st[sandbox_id] EXCEPT !.status = "pending_deletion",
                                            !.deletion_requested_at = current_time]
         IN  [table |-> [st EXCEPT ![sandbox_id] = item], ret |-> item]
    ELSE [table |-> st, ret |-> Absent]

\* Variant: the update is made without a condition on status, owner or age
mark_for_deletion_unguarded(st, sandbox_id, track_id, current_time, max_expiry_time) ==
    IF st[sandbox_id] # Absent
    THEN LET item == [st[sandbox_id] EXCEPT !.status = "pending_deletion",
                                            !.deletion_requested_at = current_time]
         IN  [table |-> [st EXCEPT ![sandbox_id] = item], ret |-> item]
    ELSE [table |-> st, ret |-> Absent]

\* Variant: the condition has no bound on allocated_at
mark_for_deletion_no_deadline(st, sandbox_id, track_id, current_time, max_expiry_time) ==
    IF /\ st[sandbox_id] # Absent
       /\ st[sandbox_id].status = "allocated"
       /\ st[sandbox_id].allocated_to_track = track_id
    THEN LET item == [st[sandbox_id] EXCEPT !.status = "pending_deletion",
                                            !.deletion_requested_at = current_time]
         IN  [table |-> [st EXCEPT ![sandbox_id] = item], ret |-> item]
    ELSE [table |-> st, ret |-> Absent]

\* Variant: the condition does not compare allocated_to_track
mark_for_deletion_any_owner(st, sandbox_id, track_id, current_time, max_expiry_time) ==
    IF /\ st[sandbox_id] # Absent
       /\ st[sandbox_id].status = "allocated"
       /\ st[sandbox_id].allocated_at > max_expiry_time
    THEN LET item == [st[sandbox_id] EXCEPT !.status = "pending_deletion",
                                            !.deletion_requested_at = current_time]
         IN  [table |-> [st EXCEPT ![sandbox_id] = item], ret |-> item]
    ELSE [table |-> st, ret |-> Absent]

\* Conditional update: exists AND status = allocated AND
\* allocated_to_track = track_id AND allocated_at > max_expiry.
mark_for_deletion(st, sandbox_id, track_id, current_time, max_expiry_time) ==
    IF /\ st[sandbox_id] # Absent
       /\ st[sandbox_id].status = "allocated"
       /\ st[sandbox_id].allocated_to_track = track_id
       /\ st[sandbox_id].allocated_at > max_expiry_time
    THEN LET item == [st[sandbox_id] EXCEPT !.status = "pending_deletion",
                                            !.deletion_requested_at = current_time]
         IN  [table |-> [st EXCEPT ![sandbox_id] = item], ret |-> item]
    ELSE [table |-> st, ret |-> Absent]

\* Sandbox -> item: every field of the model is written; the optional ones
\* are left out of the item when falsy, which reads back as 0 (dynamodb.py:38-87)
_to_item(sandbox) ==
    [status |-> sandbox.status,
     allocated_to_track |-> sandbox.allocated_to_track,
     allocated_at |-> sandbox.allocated_at,
     idempotency_key |-> sandbox.idempotency_key,
     deletion_requested_at |-> sandbox.deletion_requested_at,
     deletion_retry_count |-> sandbox.deletion_retry_count,
     lab_duration_hours |-> sandbox.lab_duration_hours]

\* Unconditional put_item: the whole item is replaced
put_sandbox(st, sandbox_id, sandbox) == [st EXCEPT ![sandbox_id] = _to_item(sandbox)]

\* ------------------------------------------------------ client requests
\* A client task is inside allocate_sandbox ("scan", "claim"), inside
\* mark_for_deletion ("diag"), or holds the response of its last request
\* ("done"; "idle" before the first one).  prior is the sandbox the task's
\* previous allocate returned for the same key (0 if the previous request was
\* anything else).  pre and post are the target item before and after the
\* conditional write of mark_for_deletion; existing is the item read by the
\* follow-up get.
Idle == [pc |-> "idle", op |-> "none", track_id |-> NoOwner, idem_key |-> NoKey,
         current_time |-> 0, sandbox_id |-> 0, candidates |-> <<>>, attempt |-> 0,
         outcome |-> "none", prior |-> 0, pre |-> Absent, post |-> Absent,
         existing |-> Absent]

Ready(r) == r.pc \in {"idle", "done"}
Succeeded(r) == r.op = "allocate" /\ r.pc = "done" /\ r.outcome \in {"allocated", "idempotent"}

Finish(r, outcome, sandbox_id) ==
    [r EXCEPT !.pc = "done", !.outcome = outcome, !.sandbox_id = sandbox_id,
              !.candidates = <<>>, !.attempt = 0]

\* Variant: an idempotent hit refreshes allocated_at of the record it returns
AllocateLookup_refresh(r, st, track_id, idempotency_key, t, found) ==
    LET idem_key == IF idempotency_key # NoKey THEN idempotency_key ELSE track_id
        r1 == [Idle EXCEPT !.op = "allocate", !.track_id = track_id,
                           !.idem_key = idem_key, !.current_time = t,
                           !.prior = IF Succeeded(r) /\ r.track_id = track_id
                                        /\ r.idem_key = idem_key
                                     THEN r.sandbox_id ELSE 0]
    IN  IF found # 0 /\ ~is_expired(st[found], t, grace_period_minutes)
        THEN [table |-> [st EXCEPT ![found].allocated_at = t],
              r |-> Finish(r1, "idempotent", found)]
        ELSE [table |-> st, r |-> [r1 EXCEPT !.pc = "scan"]]

\* allocate_sandbox, step 1: the idempotency lookup (allocation.py:70-82);
\* found is the result of find_allocation_by_idempotency_key (0 for None)
AllocateLookup(r, st, track_id, idempotency_key, t, found) ==
    LET idem_key == IF idempotency_key # NoKey THEN idempotency_key ELSE track_id
        r1 == [Idle EXCEPT !.op = "allocate", !.track_id = track_id,
                           !.idem_key = idem_key, !.current_time = t,
                           !.prior = IF Succeeded(r) /\ r.track_id = track_id
                                        /\ r.idem_key = idem_key
                                     THEN r.sandbox_id ELSE 0]
    IN  IF found # 0 /\ ~is_expired(st[found], t, grace_period_minutes)
        THEN [table |-> st, r |-> Finish(r1, "idempotent", found)]
        ELSE [table |-> st, r |-> [r1 EXCEPT !.pc = "scan"]]

AllocateStart(c, track_id, idempotency_key) ==
    /\ Ready(req[c])
    /\ budget > 0
    /\ \E found \in find_allocation_by_idempotency_key(
                        store, IF idempotency_key # NoKey THEN idempotency_key
                                                           ELSE track_id) :
          LET a == AllocateLookup(req[c], store, track_id, idempotency_key, now, found)
          IN  /\ store' = a.table
              /\ req' = [req EXCEPT ![c] = a.r]
    /\ budget' = budget - 1
    /\ UNCHANGED <<ctlVars, envVars, grants, jobVars>>

\* allocate_sandbox, step 2: the candidate scan (allocation.py:84-93)
AllocateScan(c) ==
    /\ req[c].pc = "scan"
    /\ \E candidates \in get_available_candidates(store, k_candidates) :
          req' = [req EXCEPT ![c] =
                    IF candidates = <<>>
                    THEN Finish(req[c], "NoSandboxesAvailable", 0)
                    ELSE [req[c] EXCEPT !.pc = "claim", !.candidates = candidates,
                                        !.attempt = 0]]
    /\ UNCHANGED <<ctlVars, envVars, store, budget, grants, jobVars>>

\* Variant: the loop gives up after the first candidate that is taken
AllocateAttempt_no_retry(r, st) ==
    LET candidate == r.candidates[r.attempt + 1]
        res == atomic_allocate(st, candidate, r.track_id, r.idem_key, r.current_time)
    IN  IF res.ret # Absent
        THEN [table |-> res.table, r |-> Finish(r, "allocated", candidate)]
        ELSE [table |-> res.table, r |-> Finish(r, "NoSandboxesAvailable", 0)]

\* Variant: after a conflict the loop passes over the following candidate
AllocateAttempt_skip_one(r, st) ==
    LET candidate == r.candidates[r.attempt + 1]
        res == atomic_allocate(st, candidate, r.track_id, r.idem_key, r.current_time)
    IN  IF res.ret # Absent
        THEN [table |-> res.table, r |-> Finish(r, "allocated", candidate)]
        ELSE IF r.attempt + 2 < Len(r.candidates)
             THEN [table |-> res.table, r |-> [r EXCEPT !.attempt = r.attempt + 2]]
             ELSE [table |-> res.table, r |-> Finish(r, "NoSandboxesAvailable", 0)]

\* allocate_sandbox, step 3: one pass of the loop over the candidates
\* (allocation.py:99-130); the backoff sleep separates two passes.
AllocateAttempt(r, st) ==
    LET candidate == r.candidates[r.attempt + 1]
        res == atomic_allocate(st, candidate, r.track_id, r.idem_key, r.current_time)
    IN  IF res.ret # Absent
        THEN [table |-> res.table, r |-> Finish(r, "allocated", candidate)]
        ELSE IF r.attempt + 1 < Len(r.candidates)
             THEN [table |-> res.table, r |-> [r EXCEPT !.attempt = r.attempt + 1]]
             ELSE [table |-> res.table, r |-> Finish(r, "NoSandboxesAvailable", 0)]

\* The allocation handed out by a successful conditional write; double says
\* that the sandbox was at that moment still held by another owner, who had
\* not released it and whose deadline plus grace had not passed.
NoGrant == [owner |-> NoOwner, at |-> 0, double |-> FALSE]
Grant(old, owner, t, clock) ==
    [owner |-> owner, at |-> t,
     double |-> /\ old # NoGrant
                /\ old.owner # owner
                /\ clock <= old.at + expiry_threshold_seconds]

AllocateClaim(c) ==
    /\ req[c].pc = "claim"
    /\ LET a == AllocateAttempt(req[c], store)
       IN  /\ store' = a.table
           /\ req' = [req EXCEPT ![c] = a.r]
           /\ grants' = IF a.r.outcome = "allocated"
                        THEN [grants EXCEPT ![a.r.sandbox_id] =
                                Grant(@, a.r.track_id, a.r.current_time, now)]
                        ELSE grants
    /\ UNCHANGED <<ctlVars, envVars, budget, jobVars>>

\* mark_for_deletion, the conditional write (allocation.py:157-168, 196-197)
ReleaseWrite(r, st, sandbox_id, track_id, t) ==
    LET max_expiry_time == t - lab_duration_seconds
        res == mark_for_deletion(st, sandbox_id, track_id, t, max_expiry_time)
        r1 == [Idle EXCEPT !.op = "release", !.track_id = track_id,
                           !.sandbox_id = sandbox_id, !.current_time = t,
                           !.pre = st[sandbox_id], !.post = res.table[sandbox_id]]
    IN  [table |-> res.table,
         r |-> IF res.ret # Absent
               THEN [r1 EXCEPT !.pc = "done", !.outcome = "released"]
               ELSE [r1 EXCEPT !.pc = "diag"]]

ReleaseStart(c, sandbox_id, track_id) ==
    /\ Ready(req[c])
    /\ budget > 0
    /\ LET w == ReleaseWrite(req[c], store, sandbox_id, track_id, now)
       IN  /\ store' = w.table
           /\ req' = [req EXCEPT ![c] = w.r]
           /\ grants' = IF w.r.outcome = "released"
                        THEN [grants EXCEPT ![sandbox_id] = NoGrant]
                        ELSE grants
    /\ budget' = budget - 1
    /\ UNCHANGED <<ctlVars, envVars, jobVars>>

\* Variant: the follow-up get does not look at the status
ReleaseDiagnose_no_status(r, existing) ==
    LET r1 == [r EXCEPT !.pc = "done", !.existing = existing]
    IN  IF existing = Absent THEN [r1 EXCEPT !.outcome = "NotOwner"]
        ELSE IF existing.allocated_to_track # r.track_id
             THEN [r1 EXCEPT !.outcome = "NotOwner"]
        ELSE [r1 EXCEPT !.outcome = "AllocationExpired"]

\* mark_for_deletion, the follow-up get after a failed condition
\* (allocation.py:170-194)
ReleaseDiagnose(r, existing) ==
    LET r1 == [r EXCEPT !.pc = "done", !.existing = existing]
    IN  IF existing = Absent THEN [r1 EXCEPT !.outcome = "NotOwner"]
        ELSE IF existing.status # "allocated" THEN [r1 EXCEPT !.outcome = "NotOwner"]
        ELSE IF existing.allocated_to_track # r.track_id
             THEN [r1 EXCEPT !.outcome = "NotOwner"]
        ELSE [r1 EXCEPT !.outcome = "AllocationExpired"]

ReleaseDiag(c) ==
    /\ req[c].pc = "diag"
    /\ req' = [req EXCEPT ![c] =
                 ReleaseDiagnose(req[c], get_sandbox(store, req[c].sandbox_id))]
    /\ UNCHANGED <<ctlVars, envVars, store, budget, grants, jobVars>>

\* get_sandbox of the allocation service: one get_sandbox of the table, then
\* is_owned_by (allocation.py:204-228).  pre is the item the table held,
\* existing the record returned to the client.
GetSandbox(c, sandbox_id, track_id) ==
    /\ Ready(req[c])
    /\ budget > 0
    /\ LET sandbox == get_sandbox(store, sandbox_id)
           owned == sandbox # Absent /\ is_owned_by(sandbox, track_id)
       IN  req' = [req EXCEPT ![c] =
                      [Idle EXCEPT !.pc = "done", !.op = "get",
                                   !.track_id = track_id,
                                   !.sandbox_id = sandbox_id,
                                   !.current_time = now,
                                   !.outcome = IF owned THEN "ok" ELSE "NotOwner",
                                   !.pre = sandbox,
                                   !.existing = IF owned THEN sandbox ELSE Absent]]
    /\ budget' = budget - 1
    /\ UNCHANGED <<ctlVars, envVars, store, grants, jobVars>>

\* A Store call that raises: a ClientError other than
\* ConditionalCheckFailedException is re-raised as Exception by the client
\* (dynamodb.py:96-97, 115-116, 163-167, 189-191, 231-235), a transport error
\* passes through as it is; the service counts it and re-raises
\* (allocation.py:131-136, 196-202) and the application answers 500
\* INTERNAL_ERROR (main.py:113-125).  applied says that the update had taken
\* effect in the table before the call raised (a response that was lost).

\* Variant: any exception of update_item counts as a failed condition
AllocateFault_as_conflict(r, st, applied) ==
    IF r.attempt + 1 < Len(r.candidates)
    THEN [table |-> st, r |-> [r EXCEPT !.attempt = r.attempt + 1]]
    ELSE [table |-> st, r |-> Finish(r, "NoSandboxesAvailable", 0)]

AllocateFault(r, st, applied) ==
    LET candidate == r.candidates[r.attempt + 1]
        res == atomic_allocate(st, candidate, r.track_id, r.idem_key, r.current_time)
    IN  [table |-> IF applied THEN res.table ELSE st,
         r |-> Finish(r, "InternalError", 0)]

AllocateStartRaise(c, track_id, idempotency_key) ==
    /\ Ready(req[c])
    /\ budget > 0
    /\ req' = [req EXCEPT ![c] =
                 Finish([Idle EXCEPT !.op = "allocate", !.track_id = track_id,
                                     !.idem_key = IF idempotency_key # NoKey
                                                  THEN idempotency_key ELSE track_id,
                                     !.current_time = now],
                        "InternalError", 0)]
    /\ budget' = budget - 1
    /\ UNCHANGED <<ctlVars, envVars, store, grants, jobVars>>

AllocateScanRaise(c) ==
    /\ req[c].pc = "scan"
    /\ req' = [req EXCEPT ![c] = Finish(req[c], "InternalError", 0)]
    /\ UNCHANGED <<ctlVars, envVars, store, budget, grants, jobVars>>

AllocateClaimRaise(c, applied) ==
    /\ req[c].pc = "claim"
    /\ LET a == AllocateFault(req[c], store, applied)
           candidate == req[c].candidates[req[c].attempt + 1]
       IN  /\ store' = a.table
           /\ req' = [req EXCEPT ![c] = a.r]
           /\ grants' = IF a.table # store
                        THEN [grants EXCEPT ![candidate] =
                                Grant(@, req[c].track_id, req[c].current_time, now)]
                        ELSE grants
    /\ UNCHANGED <<ctlVars, envVars, budget, jobVars>>

ReleaseStartRaise(c, sandbox_id, track_id, applied) ==
    /\ Ready(req[c])
    /\ budget > 0
    /\ LET w == ReleaseWrite(req[c], store, sandbox_id, track_id, now)
           table == IF applied THEN w.table ELSE store
       IN  /\ store' = table
           /\ req' = [req EXCEPT ![c] =
                        [w.r EXCEPT !.pc = "done", !.outcome = "InternalError",
                                    !.post = table[sandbox_id]]]
           /\ grants' = IF table # store
                        THEN [grants EXCEPT ![sandbox_id] = NoGrant]
                        ELSE grants
    /\ budget' = budget - 1
    /\ UNCHANGED <<ctlVars, envVars, jobVars>>

ReleaseDiagRaise(c) ==
    /\ req[c].pc = "diag"
    /\ req' = [req EXCEPT ![c] = [req[c] EXCEPT !.pc = "done",
                                               !.outcome = "InternalError"]]
    /\ UNCHANGED <<ctlVars, envVars, store, budget, grants, jobVars>>

ClientRaise(CS) ==
    \/ \E c \in CS, o \in Owners :
          \E key \in KeyChoices(o) : AllocateStartRaise(c, o, key)
    \/ \E c \in CS : AllocateScanRaise(c)
    \/ \E c \in CS, applied \in BOOLEAN : AllocateClaimRaise(c, applied)
    \/ \E c \in CS, sid \in SandboxIds, o \in Owners, applied \in BOOLEAN :
          ReleaseStartRaise(c, sid, o, applied)
    \/ \E c \in CS : ReleaseDiagRaise(c)

\* the clock advances
Tick ==
    /\ now < horizon
    /\ now' = now + 1
    /\ UNCHANGED <<ctlVars, k_candidates, upstream, horizon, cleanup_batch_size,
                   store, req, budget, grants, jobVars>>

\* ------------------------------------------- pool gauges (core/metrics.py)
\* _pool_gauges_cache and the gauges set from the last enumeration.  The
\* cache counts time in its own unit.  requests, scans, force and outcome
\* describe the calls of update_pool_gauges made so far and the last one;
\* window counts the enumerations started inside the TTL window that the
\* last completed enumeration opened, that one included.  The code keeps
\* none of these five.
GaugeNames == {"total", "available", "allocated", "pending_deletion", "stale",
               "deletion_failed"}

_pool_gauges_cache(ttl) ==
    [last_update |-> 0, cache_ttl_seconds |-> ttl,
     stats |-> [g \in GaugeNames |-> 0],
     requests |-> 0, scans |-> 0, window |-> 0, force |-> FALSE, outcome |-> "none"]

GaugesCold == _pool_gauges_cache(MaxTtl)

\* table.scan() and the count by status (metrics.py:201-218)
PoolStats(st) ==
    [g \in GaugeNames |->
        IF g = "total" THEN Cardinality(Items(st))
        ELSE Cardinality({sid \in Items(st) : st[sid].status = g})]

\* Variant: the cache is not consulted
update_pool_gauges_uncached(g, st, current_time, force, scan_raises) ==
    LET g1 == [g EXCEPT !.requests = @ + 1, !.force = force, !.scans = @ + 1]
        inside == g.last_update # 0
                    /\ current_time - g.last_update < g.cache_ttl_seconds
    IN  IF scan_raises
        THEN [g1 EXCEPT !.outcome = "error",
                        !.window = IF inside /\ ~force THEN @ + 1 ELSE @]
        ELSE [g1 EXCEPT !.outcome = "scanned", !.stats = PoolStats(st),
                        !.last_update = current_time,
                        !.window = IF inside /\ ~force THEN @ + 1 ELSE 1]

\* update_pool_gauges (metrics.py:182-228): return while the cache is valid,
\* else enumerate the table, set the gauges and stamp the cache; a scan that
\* raises leaves gauges and cache as they were.
update_pool_gauges(g, st, current_time, force, scan_raises) ==
    LET g1 == [g EXCEPT !.requests = @ + 1, !.force = force]
        inside == g.last_update # 0
                    /\ current_time - g.last_update < g.cache_ttl_seconds
    IN  IF ~force /\ (current_time - g.last_update) < g.cache_ttl_seconds
        THEN [g1 EXCEPT !.outcome = "cached"]
        ELSE IF scan_raises
        THEN [g1 EXCEPT !.outcome = "error", !.scans = @ + 1,
                        !.window = IF inside /\ ~force THEN @ + 1 ELSE @]
        ELSE [g1 EXCEPT !.outcome = "scanned", !.scans = @ + 1,
                        !.stats = PoolStats(st),
                        !.last_update = current_time,
                        !.window = IF inside /\ ~force THEN @ + 1 ELSE 1]

\* GET /metrics (metrics_routes.py:13-23) calls it without force; force is
\* the function's parameter
UpdatePoolGauges(force, scan_raises) ==
    /\ budget > 0
    /\ gauges' = update_pool_gauges(gauges, store, now, force, scan_raises)
    /\ budget' = budget - 1
    /\ UNCHANGED <<breaker, calls, loops, envVars, store, req, grants, jobVars>>

\* ------------------------------------ CircuitBreaker (circuit_breaker.py)
\* The breaker counts time in its own unit; last_failure_time None is 0.
\* opened_at and opened_from record the time of the last move to OPEN and
\* the state it was made from, streak the failures recorded since the last
\* recorded success; the code does not keep them.
BreakerCallers == 1..NumCallers

NewBreaker(failure_threshold, timeout_seconds) ==
    [state |-> "closed", failure_count |-> 0, last_failure_time |-> 0,
     success_count |-> 0, failure_threshold |-> failure_threshold,
     timeout_seconds |-> timeout_seconds,
     opened_at |-> 0, opened_from |-> "none", streak |-> 0]

\* circuit_breaker.py:135-140
_should_attempt_reset(b, t) ==
    \/ b.last_failure_time = 0
    \/ t - b.last_failure_time >= b.timeout_seconds

\* circuit_breaker.py:142-152
_on_success(b) ==
    IF b.state = "half_open"
    THEN [b EXCEPT !.state = "closed", !.failure_count = 0, !.success_count = 0,
                   !.streak = 0]
    ELSE IF b.state = "closed"
         THEN [b EXCEPT !.failure_count = 0, !.streak = 0]
         ELSE [b EXCEPT !.streak = 0]

\* Variant: the breaker opens when the count exceeds the threshold
_on_failure_late(b, t) ==
    LET b1 == [b EXCEPT !.failure_count = @ + 1, !.last_failure_time = t,
                        !.streak = @ + 1]
    IN  IF b.state = "half_open"
        THEN [b1 EXCEPT !.state = "open", !.opened_at = t,
                        !.opened_from = "half_open"]
        ELSE IF b.state = "closed" /\ b1.failure_count > b.failure_threshold
             THEN [b1 EXCEPT !.state = "open", !.opened_at = t,
                             !.opened_from = "closed"]
             ELSE b1

\* circuit_breaker.py:154-171
_on_failure(b, t) ==
    LET b1 == [b EXCEPT !.failure_count = @ + 1, !.last_failure_time = t,
                        !.streak = @ + 1]
    IN  IF b.state = "half_open"
        THEN [b1 EXCEPT !.state = "open", !.opened_at = t,
                        !.opened_from = "half_open"]
        ELSE IF b.state = "closed" /\ b1.failure_count >= b.failure_threshold
             THEN [b1 EXCEPT !.state = "open", !.opened_at = t,
                             !.opened_from = "closed"]
             ELSE b1

\* the check at the head of call and call_async (circuit_breaker.py:68-79,
\* 109-120): the breaker after it, whether the call goes on to the wrapped
\* function, and whether it is the call that moved the breaker to HALF_OPEN
Admit(b, t) ==
    IF b.state = "open"
    THEN IF _should_attempt_reset(b, t)
         THEN [b |-> [b EXCEPT !.state = "half_open", !.success_count = 0],
               admitted |-> TRUE, probe |-> TRUE]
         ELSE [b |-> b, admitted |-> FALSE, probe |-> FALSE]
    ELSE [b |-> b, admitted |-> TRUE, probe |-> FALSE]

\* call (circuit_breaker.py:53-92), func(*args) raising or returning
call(b, t, raises) ==
    LET a == Admit(b, t)
    IN  IF ~a.admitted THEN [b |-> b, outcome |-> "rejected", probe |-> FALSE]
        ELSE IF raises
             THEN [b |-> _on_failure(a.b, t), outcome |-> "failed", probe |-> a.probe]
             ELSE [b |-> _on_success(a.b), outcome |-> "ok", probe |-> a.probe]

\* eng_csp_circuit_breaker.call(_fetch) and call(_delete) (eng_csp.py:90,
\* 135): the wrapped function is an async def, so calling it returns a
\* coroutine and does not raise; the request is made when the caller awaits
\* what call returned
call_coroutine(b, t) == call(b, t, FALSE)

\* One caller of the breaker: pc is "await" inside call_async's await; n
\* counts the calls made; outcome is the last call's ("rejected", "ok",
\* "failed"); probe says that the call moved the breaker to HALF_OPEN.
CallIdle == [pc |-> "idle", n |-> 0, outcome |-> "none", probe |-> FALSE]

\* call with a function that returns or raises (circuit_breaker.py:53-92)
CallSync(c) ==
    /\ calls[c].pc = "idle"
    /\ budget > 0
    /\ \E raises \in BOOLEAN :
          LET r == call(breaker, now, raises)
          IN  /\ breaker' = r.b
              /\ calls' = [calls EXCEPT ![c] = [pc |-> "idle", n |-> @.n + 1,
                                                outcome |-> r.outcome,
                                                probe |-> r.probe]]
    /\ budget' = budget - 1
    /\ UNCHANGED <<envVars, store, req, grants, jobVars, loops, gauges>>

\* call_async up to its await (circuit_breaker.py:109-124)
CallAsyncEnter(c) ==
    /\ calls[c].pc = "idle"
    /\ budget > 0
    /\ LET a == Admit(breaker, now)
       IN  /\ breaker' = a.b
           /\ calls' = [calls EXCEPT ![c] =
                           IF a.admitted
                           THEN [pc |-> "await", n |-> @.n + 1, outcome |-> "none",
                                 probe |-> a.probe]
                           ELSE [pc |-> "idle", n |-> @.n + 1,
                                 outcome |-> "rejected", probe |-> FALSE]]
    /\ budget' = budget - 1
    /\ UNCHANGED <<envVars, store, req, grants, jobVars, loops, gauges>>

\* the awaited function returns (circuit_breaker.py:124-128)
CallAsyncReturn(c) ==
    /\ calls[c].pc = "await"
    /\ breaker' = _on_success(breaker)
    /\ calls' = [calls EXCEPT ![c].pc = "idle", ![c].outcome = "ok"]
    /\ UNCHANGED <<envVars, store, req, budget, grants, jobVars, loops, gauges>>

\* the awaited function raises (circuit_breaker.py:130-133)
CallAsyncRaise(c) ==
    /\ calls[c].pc = "await"
    /\ breaker' = _on_failure(breaker, now)
    /\ calls' = [calls EXCEPT ![c].pc = "idle", ![c].outcome = "failed"]
    /\ UNCHANGED <<envVars, store, req, budget, grants, jobVars, loops, gauges>>

BreakerStep ==
    \E c \in BreakerCallers :
        \/ CallSync(c)
        \/ CallAsyncEnter(c)
        \/ CallAsyncReturn(c)
        \/ CallAsyncRaise(c)

\* ------------------------------------------ trigger_sync (admin.py:72-141)
\* eng: the fetched upstream entries not yet processed; current: the ids found
\* in the table and not yet discarded; sid, existing: the entry being handled
\* and the item get_sandbox returned for it.  runs counts the completed runs;
\* listing and start are the upstream listing and the table as they were when
\* the last run started; error says how fetch_sandboxes failed in the last
\* run ("rejected" by the breaker, "raised" by the request), "none" if it
\* did not.
SyncIdle == [pc |-> "idle", eng |-> {}, current |-> {}, sid |-> 0, existing |-> Absent,
             runs |-> 0, listing |-> {}, start |-> <<>>, error |-> "none"]

\* end of the first loop when eng is exhausted, end of the run when current is
SyncAdvance(s) ==
    LET s1 == IF s.pc = "upsert" /\ s.eng = {} THEN [s EXCEPT !.pc = "missing"] ELSE s
    IN  IF s1.pc = "missing" /\ s1.current = {}
        THEN [SyncIdle EXCEPT !.runs = s.runs + 1, !.listing = s.listing,
                              !.start = s.start]
        ELSE s1

\* Variant: a listing that could not be fetched counts as an empty listing
SyncBegin_empty_listing(s, outcome, listing, st) ==
    [SyncIdle EXCEPT !.pc = "ids", !.eng = IF outcome = "ok" THEN listing ELSE {},
                     !.runs = s.runs,
                     !.listing = IF outcome = "ok" THEN listing ELSE {},
                     !.start = st, !.error = IF outcome = "ok" THEN "none" ELSE outcome]

\* the start of a run (admin.py:79-86, 136-139): when fetch_sandboxes raises,
\* trigger_sync counts the error and raises, and the run is over
SyncBegin(s, outcome, listing, st) ==
    IF outcome # "ok"
    THEN [s EXCEPT !.runs = @ + 1, !.error = outcome]
    ELSE [SyncIdle EXCEPT !.pc = "ids", !.eng = listing, !.runs = s.runs,
                          !.listing = listing, !.start = st]

\* eng_csp_service.fetch_sandboxes() (admin.py:83, eng_csp.py:21-90): the
\* breaker rejects the call, or the listing is returned
SyncFetch ==
    /\ sync.pc = "idle"
    /\ sync.runs < MaxRuns
    /\ LET r == call_coroutine(breaker, now)
       IN  /\ breaker' = r.b
           /\ sync' = SyncBegin(sync, IF r.outcome = "rejected" THEN "rejected" ELSE "ok",
                                upstream, store)
    /\ UNCHANGED <<calls, loops, gauges, envVars, store, req, budget, grants, expiry, cleanup, bulk>>

\* the same, the request for the listing failing (raise_for_status or a
\* transport error, eng_csp.py:47-53) when the coroutine is awaited
SyncFetchRaise ==
    /\ sync.pc = "idle"
    /\ sync.runs < MaxRuns
    /\ LET r == call_coroutine(breaker, now)
       IN  /\ r.outcome # "rejected"
           /\ breaker' = r.b
           /\ sync' = SyncBegin(sync, "raised", upstream, store)
    /\ UNCHANGED <<calls, loops, gauges, envVars, store, req, budget, grants, expiry, cleanup, bulk>>

\* _get_all_sandbox_ids() (admin.py:89, 328-345)
SyncIds ==
    /\ sync.pc = "ids"
    /\ sync' = SyncAdvance([sync EXCEPT !.pc = "upsert", !.current = Items(store)])
    /\ UNCHANGED <<ctlVars, envVars, store, req, budget, grants, expiry, cleanup, bulk>>

\* the get of one upstream entry and the decision to upsert it (admin.py:92-108)
SyncDecide(s, sid, existing) ==
    IF existing = Absent \/ existing.status \in {"available", "stale"}
    THEN [s EXCEPT !.pc = "put", !.sid = sid]
    ELSE SyncAdvance([s EXCEPT !.eng = @ \ {sid}, !.current = @ \ {sid}])

SyncGet ==
    /\ sync.pc = "upsert"
    /\ \E sid \in sync.eng :
          sync' = SyncDecide(sync, sid, get_sandbox(store, sid))
    /\ UNCHANGED <<ctlVars, envVars, store, req, budget, grants, expiry, cleanup, bulk>>

\* the put of that entry as a fresh available Sandbox (admin.py:93-113)
SyncUpsert(s, st) ==
    [table |-> put_sandbox(st, s.sid, NewSandbox("available")),
     s |-> SyncAdvance([s EXCEPT !.pc = "upsert", !.sid = 0,
                                 !.eng = @ \ {s.sid}, !.current = @ \ {s.sid}])]

SyncPut ==
    /\ sync.pc = "put"
    /\ LET u == SyncUpsert(sync, store)
       IN  store' = u.table /\ sync' = u.s
    /\ UNCHANGED <<ctlVars, envVars, req, budget, grants, expiry, cleanup, bulk>>

\* Variant: every record missing upstream is marked stale, whatever its status
SyncDecideMissing_any_status(s, missing_id, existing) ==
    IF existing # Absent
    THEN [s EXCEPT !.pc = "putstale", !.sid = missing_id, !.existing = existing]
    ELSE SyncAdvance([s EXCEPT !.current = @ \ {missing_id}])

\* the get of one id missing upstream (admin.py:116-118)
SyncDecideMissing(s, missing_id, existing) ==
    IF existing # Absent /\ existing.status = "available"
    THEN [s EXCEPT !.pc = "putstale", !.sid = missing_id, !.existing = existing]
    ELSE SyncAdvance([s EXCEPT !.current = @ \ {missing_id}])

SyncGetMissing ==
    /\ sync.pc = "missing"
    /\ \E missing_id \in sync.current :
          sync' = SyncDecideMissing(sync, missing_id, get_sandbox(store, missing_id))
    /\ UNCHANGED <<ctlVars, envVars, store, req, budget, grants, expiry, cleanup, bulk>>

\* the put of the item read, with status stale (admin.py:119-122)
SyncMarkStale(s, st) ==
    [table |-> put_sandbox(st, s.sid, [s.existing EXCEPT !.status = "stale"]),
     s |-> SyncAdvance([s EXCEPT !.pc = "missing", !.sid = 0, !.existing = Absent,
                                 !.current = @ \ {s.sid}])]

SyncPutStale ==
    /\ sync.pc = "putstale"
    /\ LET u == SyncMarkStale(sync, store)
       IN  store' = u.table /\ sync' = u.s
    /\ UNCHANGED <<ctlVars, envVars, req, budget, grants, expiry, cleanup, bulk>>

SyncStep == SyncFetch \/ SyncIds \/ SyncGet \/ SyncPut \/ SyncGetMissing \/ SyncPutStale

\* an account disappears from the ENG tenant (deleted or deactivated there)
UpstreamRemove(sid) ==
    /\ sid \in upstream
    /\ upstream' = upstream \ {sid}
    /\ UNCHANGED <<ctlVars, now, k_candidates, horizon, cleanup_batch_size,
                   store, req, budget, grants, jobVars>>

\* the records of the ids S as a query returns them
Snapshot(st, S) == [sid \in SandboxIds |-> IF sid \in S THEN st[sid] ELSE Absent]

\* -------------------------------------- auto_expiry_job (scheduler.py:98-173)
\* items: the allocated records the query returned that are past the cutoff
\* (the others are not used again); todo: those of them not yet written; ran says that a run has completed
\* in the current expiry interval.
ExpiryIdle == [pc |-> "idle", current_time |-> 0, items |-> Snapshot(<<>>, {}), todo |-> {},
               ran |-> FALSE]

\* the records of a query on GSI1 are sorted by allocated_at: the next one is
\* one with the smallest allocated_at among those left
NextInOrder(items, todo) ==
    {sid \in todo : \A o \in todo : items[sid].allocated_at <= items[o].allocated_at}

\* Variant: the cutoff is one time unit too early
ExpirySelect_late(st, current_time) ==
    LET cutoff_time == current_time - expiry_threshold_seconds - 1
    IN  {sid \in Items(st) : /\ st[sid].status = "allocated"
                             /\ st[sid].allocated_at # 0
                             /\ st[sid].allocated_at < cutoff_time}

ExpirySelect(st, current_time) ==
    LET cutoff_time == current_time - expiry_threshold_seconds
    IN  {sid \in Items(st) : /\ st[sid].status = "allocated"
                             /\ st[sid].allocated_at # 0
                             /\ st[sid].allocated_at < cutoff_time}

ExpiryAdvance(e) ==
    IF e.pc = "put" /\ e.todo = {} THEN [ExpiryIdle EXCEPT !.ran = TRUE] ELSE e

\* the query of the allocated records (scheduler.py:114-128)
ExpiryQuery ==
    /\ expiry.pc = "idle"
    /\ expiry' = ExpiryAdvance([expiry EXCEPT !.pc = "put", !.current_time = now,
                                              !.items = Snapshot(store, ExpirySelect(store, now)),
                                              !.todo = ExpirySelect(store, now)])
    /\ UNCHANGED <<ctlVars, envVars, store, req, budget, grants, sync, cleanup, bulk>>

\* Variant: the job writes a newly built Sandbox instead of the one it read
ExpiryMark_fresh(e, st, sid) ==
    [table |-> put_sandbox(st, sid, [NewSandbox("pending_deletion") EXCEPT
                                        !.allocated_to_track = e.items[sid].allocated_to_track,
                                        !.deletion_requested_at = e.current_time]),
     e |-> ExpiryAdvance([e EXCEPT !.todo = @ \ {sid}])]

\* the put of one record past the cutoff, as it was read (scheduler.py:131-139)
ExpiryMark(e, st, sid) ==
    [table |-> put_sandbox(st, sid, [e.items[sid] EXCEPT
                                        !.status = "pending_deletion",
                                        !.deletion_requested_at = e.current_time]),
     e |-> ExpiryAdvance([e EXCEPT !.todo = @ \ {sid}])]

ExpiryPut ==
    /\ expiry.pc = "put"
    /\ \E sid \in NextInOrder(expiry.items, expiry.todo) :
          LET m == ExpiryMark(expiry, store, sid)
          IN  store' = m.table /\ expiry' = m.e
    /\ UNCHANGED <<ctlVars, envVars, req, budget, grants, sync, cleanup, bulk>>

ExpiryStep == ExpiryQuery \/ ExpiryPut

\* The clock advances by one unit over an expiry interval: the job sleeps
\* auto_expiry_interval_sec between two runs (scheduler.py:165-173), which is
\* less than a time unit, so a run has completed since the last advance; a
\* client request and a job run last much less than a time unit and none is
\* in progress at the advance.
IntervalTick ==
    /\ now < horizon
    /\ expiry.pc = "idle" /\ expiry.ran
    /\ \A c \in Tasks : Ready(req[c])
    /\ now' = now + 1
    /\ expiry' = [expiry EXCEPT !.ran = FALSE]
    /\ UNCHANGED <<ctlVars, k_candidates, upstream, horizon, cleanup_batch_size,
                   store, req, budget, grants, sync, cleanup, bulk>>

\* ------------------------------------- trigger_cleanup (admin.py:143-226)
\* items: the pending_deletion records the query returned; todo: those not
\* yet processed; sid, success: the record whose upstream delete has returned
\* and what it returned; handled: records processed in this run; runs counts
\* the completed runs; first is the set of ids the first run's query
\* returned and failed says that some upstream delete has not succeeded;
\* streak counts the upstream delete requests that failed since the last one
\* that succeeded, and rejected holds the ids whose delete the breaker refused.
CleanupIdle == [pc |-> "idle", items |-> Snapshot(<<>>, {}), todo |-> {}, sid |-> 0,
                success |-> FALSE, handled |-> 0, runs |-> 0, first |-> {},
                failed |-> FALSE, streak |-> 0, rejected |-> {}]

\* the number of batches range(0, len(sandboxes), batch_size) makes (admin.py:171)
Ceil(a, b) == (a + b - 1) \div b

\* Variant: a run ends after the first record it handles
CleanupAdvance_skip(c, batch_size) ==
    IF c.todo = {} \/ c.handled > 0
    THEN [CleanupIdle EXCEPT !.runs = c.runs + 1, !.first = c.first,
                             !.failed = c.failed, !.streak = c.streak,
                             !.rejected = c.rejected]
    ELSE [c EXCEPT !.pc = "delete", !.sid = 0, !.success = FALSE]

CleanupAdvance(c, batch_size) ==
    IF c.todo = {}
    THEN [CleanupIdle EXCEPT !.runs = c.runs + 1, !.first = c.first,
                             !.failed = c.failed, !.streak = c.streak,
                             !.rejected = c.rejected]
    ELSE IF c.handled > 0 /\ c.handled % batch_size = 0 /\ c.pc = "write"
         THEN [c EXCEPT !.pc = "sleep", !.sid = 0, !.success = FALSE]
         ELSE [c EXCEPT !.pc = "delete", !.sid = 0, !.success = FALSE]

\* the query of the pending_deletion records (admin.py:152-162)
CleanupQuery ==
    /\ cleanup.pc = "idle"
    /\ cleanup.runs < MaxRuns
    /\ LET pending == {sid \in Items(store) : store[sid].status = "pending_deletion"}
       IN  cleanup' = CleanupAdvance(
                         [cleanup EXCEPT !.pc = "query", !.items = Snapshot(store, pending),
                                         !.todo = pending, !.handled = 0,
                                         !.first = IF cleanup.runs = 0 THEN pending
                                                                       ELSE @],
                         cleanup_batch_size)
    /\ UNCHANGED <<ctlVars, envVars, store, req, budget, grants, sync, expiry, bulk>>

\* eng_csp_service.delete_sandbox(external_id): the breaker rejects the call
\* (CircuitBreakerError), or the account is deleted upstream (or was already
\* absent) and True is returned, or the request returns False or raises
\* (admin.py:177-178, eng_csp.py:92-135)
CleanupDelete ==
    /\ cleanup.pc = "delete"
    /\ \E sid \in NextInOrder(cleanup.items, cleanup.todo), success \in BOOLEAN :
          LET r == call_coroutine(breaker, now)
          IN  /\ breaker' = r.b
              /\ IF r.outcome = "rejected"
                 THEN /\ cleanup' = [cleanup EXCEPT !.pc = "write", !.sid = sid,
                                                    !.success = FALSE,
                                                    !.failed = TRUE,
                                                    !.rejected = @ \cup {sid}]
                      /\ upstream' = upstream
                 ELSE /\ cleanup' = [cleanup EXCEPT !.pc = "write", !.sid = sid,
                                                    !.success = success,
                                                    !.failed = @ \/ ~success,
                                                    !.streak = IF success THEN 0
                                                                          ELSE @ + 1]
                      /\ upstream' = IF success THEN upstream \ {sid} ELSE upstream
    /\ UNCHANGED <<calls, loops, gauges, now, k_candidates, horizon, cleanup_batch_size,
                   store, req, budget, grants, sync, expiry, bulk>>

\* Variant: the item is deleted whatever the upstream delete returned
CleanupOutcome_always_delete(c, st, batch_size) ==
    [table |-> [st EXCEPT ![c.sid] = Absent],
     c |-> CleanupAdvance([c EXCEPT !.todo = @ \ {c.sid}, !.handled = @ + 1],
                          batch_size)]

\* delete_item after a successful upstream delete; otherwise the put of the
\* record as it was read, with status deletion_failed (admin.py:180-204)
CleanupOutcome(c, st, batch_size) ==
    [table |-> IF c.success
               THEN [st EXCEPT ![c.sid] = Absent]
               ELSE put_sandbox(st, c.sid,
                        [c.items[c.sid] EXCEPT
                            !.status = "deletion_failed",
                            !.deletion_retry_count = @ + 1]),
     c |-> CleanupAdvance([c EXCEPT !.todo = @ \ {c.sid}, !.handled = @ + 1],
                          batch_size)]

CleanupWrite ==
    /\ cleanup.pc = "write"
    /\ LET w == CleanupOutcome(cleanup, store, cleanup_batch_size)
       IN  store' = w.table /\ cleanup' = w.c
    /\ UNCHANGED <<ctlVars, envVars, req, budget, grants, sync, expiry, bulk>>

\* asyncio.sleep(batch_delay) between two batches (admin.py:206-209)
CleanupSleep ==
    /\ cleanup.pc = "sleep"
    /\ cleanup' = [cleanup EXCEPT !.pc = "delete"]
    /\ UNCHANGED <<ctlVars, envVars, store, req, budget, grants, sync, expiry, bulk>>

CleanupStep == CleanupQuery \/ CleanupDelete \/ CleanupWrite \/ CleanupSleep

\* ------------------------------- bulk_delete_by_status (admin.py:255-326)
\* todo: the ids the query returned and not yet deleted
BulkIdle == [pc |-> "idle", todo |-> {}, runs |-> 0]
StatusFilters == {"none", "available", "allocated", "pending_deletion", "stale",
                  "deletion_failed"}

BulkAdvance(b) ==
    IF b.todo = {} THEN [BulkIdle EXCEPT !.runs = b.runs + 1] ELSE b

\* the query by status, or the scan when no filter is given (admin.py:274-302)
BulkQuery(status_filter) ==
    /\ bulk.pc = "idle"
    /\ bulk.runs < MaxRuns
    /\ bulk' = BulkAdvance([bulk EXCEPT !.pc = "delete", !.todo =
                   {sid \in Items(store) :
                       status_filter = "none" \/ store[sid].status = status_filter}])
    /\ UNCHANGED <<ctlVars, envVars, store, req, budget, grants, sync, expiry, cleanup>>

\* delete_item of one of them (admin.py:304-316)
BulkDeleteItem ==
    /\ bulk.pc = "delete"
    /\ \E sid \in bulk.todo :
          /\ store' = [store EXCEPT ![sid] = Absent]
          /\ bulk' = BulkAdvance([bulk EXCEPT !.todo = @ \ {sid}])
    /\ UNCHANGED <<ctlVars, envVars, req, budget, grants, sync, expiry, cleanup>>

BulkStep == (\E status_filter \in StatusFilters : BulkQuery(status_filter)) \/ BulkDeleteItem

\* ------------------------------------------ the loops (scheduler.py:18-212)
\* pc of a task: "off" (the tasks are not created), "start" (created, before
\* the first test of the while condition), "run" (inside the try block),
\* "wait" (inside wait_for) and "exited".  iter counts the runs begun and
\* errors the runs that ended in the except block.
Jobs == {"sync_job", "cleanup_job", "auto_expiry_job"}

LoopsOff == [shutdown |-> FALSE, pc |-> [j \in Jobs |-> "off"],
             iter |-> [j \in Jobs |-> 0], errors |-> [j \in Jobs |-> 0]]

\* start_background_jobs (scheduler.py:176-193)
LoopsStarted == [LoopsOff EXCEPT !.pc = [j \in Jobs |-> "start"]]

\* the run of job j begun last has returned
RunOver(j) ==
    IF j = "sync_job" THEN sync.pc = "idle" /\ sync.runs >= loops.iter[j]
    ELSE IF j = "cleanup_job" THEN cleanup.pc = "idle" /\ cleanup.runs >= loops.iter[j]
    ELSE expiry.pc = "idle" /\ expiry.ran

\* Variant: the while condition is not tested again after the first run
LoopTest_ignore_flag(j) ==
    /\ loops.pc[j] \in {"start", "wait"}
    /\ IF loops.shutdown /\ loops.pc[j] = "start"
       THEN /\ loops' = [loops EXCEPT !.pc[j] = "exited"]
            /\ expiry' = expiry
       ELSE /\ loops.iter[j] < MaxRuns
            /\ loops' = [loops EXCEPT !.pc[j] = "run", !.iter[j] = @ + 1]
            /\ expiry' = IF j = "auto_expiry_job"
                         THEN [expiry EXCEPT !.ran = FALSE] ELSE expiry
    /\ UNCHANGED <<envVars, store, req, budget, grants, sync, cleanup, bulk,
                   breaker, calls, gauges>>

\* while not _shutdown_event.is_set(), tested when the task starts and when
\* wait_for timed out (scheduler.py:27, 54-55; 67, 94-95; 110, 172-173)
LoopTest(j) ==
    /\ loops.pc[j] \in {"start", "wait"}
    /\ IF loops.shutdown
       THEN /\ loops' = [loops EXCEPT !.pc[j] = "exited"]
            /\ expiry' = expiry
       ELSE /\ loops.iter[j] < MaxRuns
            /\ loops' = [loops EXCEPT !.pc[j] = "run", !.iter[j] = @ + 1]
            /\ expiry' = IF j = "auto_expiry_job"
                         THEN [expiry EXCEPT !.ran = FALSE] ELSE expiry
    /\ UNCHANGED <<envVars, store, req, budget, grants, sync, cleanup, bulk,
                   breaker, calls, gauges>>

\* wait_for returns because the event is set: break (scheduler.py:48-53)
LoopWake(j) ==
    /\ loops.pc[j] = "wait"
    /\ loops.shutdown
    /\ loops' = [loops EXCEPT !.pc[j] = "exited"]
    /\ UNCHANGED <<envVars, store, req, budget, grants, jobVars, breaker, calls, gauges>>

\* one step of the run in the try block (scheduler.py:28-30, 68-70, 111-139)
LoopRun(j) ==
    /\ loops.pc[j] = "run"
    /\ ~RunOver(j)
    /\ IF j = "sync_job" THEN SyncStep
       ELSE IF j = "cleanup_job" THEN CleanupStep
       ELSE ExpiryStep

\* the run returned and was logged (scheduler.py:31-37, 71-77, 141-154)
LoopRunDone(j) ==
    /\ loops.pc[j] = "run"
    /\ RunOver(j)
    /\ loops' = [loops EXCEPT !.pc[j] = "wait"]
    /\ UNCHANGED <<envVars, store, req, budget, grants, jobVars, breaker, calls, gauges>>

\* the job's record after an exception left the run
Aborted(j) ==
    [sync |-> IF j = "sync_job"
              THEN [SyncIdle EXCEPT !.runs = sync.runs + 1, !.listing = sync.listing,
                                    !.start = sync.start]
              ELSE sync,
     cleanup |-> IF j = "cleanup_job"
                 THEN [CleanupIdle EXCEPT !.runs = cleanup.runs + 1,
                                          !.first = cleanup.first,
                                          !.failed = cleanup.failed,
                                          !.streak = cleanup.streak,
                                          !.rejected = cleanup.rejected]
                 ELSE cleanup,
     expiry |-> IF j = "auto_expiry_job"
                THEN [ExpiryIdle EXCEPT !.ran = TRUE]
                ELSE expiry]

\* Variant: an exception of the run leaves the loop
LoopRunRaise_exit(j) ==
    /\ loops.pc[j] = "run"
    /\ ~RunOver(j)
    /\ loops' = [loops EXCEPT !.pc[j] = "exited", !.errors[j] = @ + 1]
    /\ sync' = Aborted(j).sync
    /\ cleanup' = Aborted(j).cleanup
    /\ expiry' = Aborted(j).expiry
    /\ UNCHANGED <<envVars, store, req, budget, grants, bulk, breaker, calls, gauges>>

\* a call of the run raises (a Store or Upstream error): the except block
\* logs it (scheduler.py:38-45, 78-85, 155-163)
LoopRunRaise(j) ==
    /\ loops.pc[j] = "run"
    /\ ~RunOver(j)
    /\ loops' = [loops EXCEPT !.pc[j] = "wait", !.errors[j] = @ + 1]
    /\ sync' = Aborted(j).sync
    /\ cleanup' = Aborted(j).cleanup
    /\ expiry' = Aborted(j).expiry
    /\ UNCHANGED <<envVars, store, req, budget, grants, bulk, breaker, calls, gauges>>

\* stop_background_jobs sets the event (scheduler.py:196-206)
Shutdown ==
    /\ ~loops.shutdown
    /\ \A j \in Jobs : loops.pc[j] # "off"
    /\ loops' = [loops EXCEPT !.shutdown = TRUE]
    /\ UNCHANGED <<envVars, store, req, budget, grants, jobVars, breaker, calls, gauges>>

LoopStep(j) ==
    \/ LoopTest(j)
    \/ LoopWake(j)
    \/ LoopRun(j)
    \/ LoopRunDone(j)
    \/ LoopRunRaise(j)

RunsIdle ==
    /\ sync = SyncIdle
    /\ expiry = ExpiryIdle
    /\ cleanup = CleanupIdle
    /\ bulk = BulkIdle

\* The breaker as constructed, no call through it in progress
BreakerIdle ==
    /\ breaker = NewBreaker(MaxThreshold, MaxTimeout)
    /\ calls = [c \in BreakerCallers |-> CallIdle]

JobsIdle ==
    /\ RunsIdle
    /\ BreakerIdle
    /\ loops = LoopsOff
    /\ gauges = GaugesCold

\* ------------------------------------------------------- specifications

\* The pool as a completed sync run leaves it: every upstream account is in
\* the table and available.
InitPool ==
    /\ now = 1
    /\ k_candidates \in 1..MaxK
    /\ store = [sid \in SandboxIds |-> NewSandbox("available")]
    /\ upstream = SandboxIds
    /\ req = [c \in Tasks |-> Idle]
    /\ grants = [sid \in SandboxIds |-> NoGrant]
    /\ cleanup_batch_size = MaxBatch
    /\ JobsIdle

ClientStep(CS) ==
    \/ \E c \in CS, o \in Owners :
          \E key \in KeyChoices(o) : AllocateStart(c, o, key)
    \/ \E c \in CS : AllocateScan(c)
    \/ \E c \in CS : AllocateClaim(c)
    \/ \E c \in CS, sid \in SandboxIds, o \in Owners : ReleaseStart(c, sid, o)
    \/ \E c \in CS : ReleaseDiag(c)

\* Concurrent client requests, no background job running
InitClients == InitPool /\ horizon = MaxTime /\ budget = MaxRequests
NextClients == ClientStep(Clients) \/ Tick
SpecClients == InitClients /\ [][NextClients]_vars

\* One client task: every request starts after the previous one returned
InitSeq == InitPool /\ horizon = MaxTime /\ budget = MaxRequests + 1
NextSeq == ClientStep({1}) \/ Tick
SpecSeq == InitSeq /\ [][NextSeq]_vars

\* Client requests concurrent with the sync job
InitSync == InitPool /\ horizon = MaxTime /\ budget = SyncRequests
NextSync ==
    \/ ClientStep(Clients)
    \/ SyncStep
    \/ \E sid \in SandboxIds : UpstreamRemove(sid)
    \/ Tick
SpecSync == InitSync /\ [][NextSync]_vars

\* One client request against a table whose sandbox 1 is in any state the
\* jobs and earlier requests can have left it in (the other sandboxes are
\* available or deleted), at a time when old allocations are past their lab
\* duration; the task is about to start a request or is inside
\* allocate_sandbox between the candidate scan and a conditional write.
StoredItems(clock) ==
    {Absent, NewSandbox("available"), NewSandbox("stale")}
    \cup {[NewSandbox(st) EXCEPT !.allocated_to_track = o, !.allocated_at = t,
                                 !.idempotency_key = o,
                                 !.deletion_requested_at =
                                     IF st = "allocated" THEN 0 ELSE clock,
                                 !.deletion_retry_count =
                                     IF st = "deletion_failed" THEN 1 ELSE 0] :
             st \in {"allocated", "pending_deletion", "deletion_failed"},
             o \in Owners,
             t \in {clock - expiry_threshold_seconds - 1,
                    clock - lab_duration_seconds, clock - lab_duration_seconds + 1, clock}
                   \cap (1..clock)}

ClaimingRequests(clock) ==
    {[Idle EXCEPT !.pc = "claim", !.op = "allocate", !.track_id = o, !.idem_key = o,
                  !.current_time = clock, !.candidates = cs] :
        o \in Owners, cs \in UNION {Perms(S) : S \in (SUBSET SandboxIds) \ {{}}}}

InitStore ==
    /\ now \in lab_duration_seconds..(lab_duration_seconds + StoreSpan)
    /\ k_candidates \in 1..MaxK
    /\ store \in {[sid \in SandboxIds |-> IF sid = 1 THEN item ELSE rest[sid]] :
                     item \in StoredItems(now),
                     rest \in [SandboxIds -> {Absent, NewSandbox("available")}]}
    /\ upstream = SandboxIds
    /\ req \in {[c \in Tasks |-> IF c = 1 THEN r ELSE Idle] :
                   r \in {Idle} \cup ClaimingRequests(now)}
    /\ grants = [sid \in SandboxIds |->
                    IF store[sid].status = "allocated"
                    THEN [owner |-> store[sid].allocated_to_track,
                          at |-> store[sid].allocated_at, double |-> FALSE]
                    ELSE NoGrant]
    /\ horizon = now
    /\ cleanup_batch_size = MaxBatch
    /\ JobsIdle
    /\ budget = 1
NextStore ==
    \/ ClientStep({1})
    \/ \E sid \in SandboxIds, o \in Owners : GetSandbox(1, sid, o)
SpecStore == InitStore /\ [][NextStore]_vars

\* A burst: budget allocate requests by distinct owners (the task's number is
\* its owner id, no Idempotency-Key header) against a fresh pool, in any
\* interleaving of their Store calls, and nothing else running
InitBurst ==
    /\ now = 1
    /\ k_candidates \in 1..MaxK
    /\ \E P \in 1..NumSandboxes :
          store = [sid \in SandboxIds |->
                      IF sid <= P THEN NewSandbox("available") ELSE Absent]
    /\ upstream = Items(store)
    /\ req = [c \in Tasks |-> Idle]
    /\ grants = [sid \in SandboxIds |-> NoGrant]
    /\ horizon = now
    /\ cleanup_batch_size = MaxBatch
    /\ JobsIdle
    /\ budget \in 1..BurstClients
NextBurst ==
    \/ \E c \in Tasks : req[c].pc = "idle" /\ AllocateStart(c, c, NoKey)
    \/ \E c \in Tasks : AllocateScan(c)
    \/ \E c \in Tasks : AllocateClaim(c)
SpecBurst == InitBurst /\ [][NextBurst]_vars

\* One client and the expiry job, from a fresh pool until allocations made at
\* the start are past lab duration plus grace
InitExpiry ==
    /\ InitPool
    /\ horizon = expiry_threshold_seconds + ExpirySpan
    /\ budget = ExpiryRequests
NextExpiry == ClientStep({1}) \/ ExpiryStep \/ Tick
SpecExpiry == InitExpiry /\ [][NextExpiry]_vars

\* The same, with the clock advancing over expiry intervals
NextInterval == ClientStep({1}) \/ ExpiryStep \/ IntervalTick
SpecInterval == InitExpiry /\ [][NextInterval]_vars

\* The table in any state, with the clients at rest
InitTable(clock) ==
    /\ now = clock
    /\ horizon = clock
    /\ k_candidates \in 1..MaxK
    /\ store \in [SandboxIds -> StoredItems(clock)]
    /\ req = [c \in Tasks |-> Idle]
    /\ grants = [sid \in SandboxIds |->
                    IF store[sid].status = "allocated"
                    THEN [owner |-> store[sid].allocated_to_track,
                          at |-> store[sid].allocated_at, double |-> FALSE]
                    ELSE NoGrant]

\* Cleanup runs on its own, the upstream deletes succeeding or not
InitCleanup ==
    /\ InitTable(lab_duration_seconds + StoreSpan)
    /\ upstream \in SUBSET Items(store)
    /\ cleanup_batch_size \in 1..MaxBatch
    /\ budget = 0
    /\ RunsIdle
    /\ breaker \in {NewBreaker(F, MaxTimeout) : F \in 1..MaxThreshold}
    /\ calls = [c \in BreakerCallers |-> CallIdle]
    /\ loops = LoopsOff
    /\ gauges = GaugesCold
NextCleanup == CleanupStep
SpecCleanup == InitCleanup /\ [][NextCleanup]_vars

\* Sync runs on its own, for any upstream listing
InitSyncAlone ==
    /\ InitTable(lab_duration_seconds + StoreSpan)
    /\ upstream \in SUBSET SandboxIds
    /\ cleanup_batch_size = MaxBatch
    /\ budget = 0
    /\ JobsIdle
NextSyncAlone == SyncStep
SpecSyncAlone == InitSyncAlone /\ [][NextSyncAlone]_vars

\* One client and every job and admin operation, at a time when the oldest
\* allocations are past lab duration plus grace; sandbox 1 is in any state
\* (an owned record is owner 1's, the client being either owner) and the
\* other sandboxes are available or deleted; upstream lists every account or
\* every account but sandbox 1; sync, cleanup and bulk delete have one run left
InitLoops ==
    /\ InitTable(expiry_threshold_seconds + 2)
    /\ \A sid \in SandboxIds \ {1} : store[sid].status \in {"absent", "available"}
    /\ store[1].allocated_to_track \in {NoOwner, 1}
    /\ k_candidates = MaxK
    /\ upstream \in {SandboxIds, SandboxIds \ {1}}
    /\ cleanup_batch_size = MaxBatch
    /\ budget = LoopRequests
    /\ sync = [SyncIdle EXCEPT !.runs = MaxRuns - 1]
    /\ expiry = ExpiryIdle
    /\ cleanup = [CleanupIdle EXCEPT !.runs = MaxRuns - 1]
    /\ bulk = [BulkIdle EXCEPT !.runs = MaxRuns - 1]
    /\ BreakerIdle
    /\ loops = LoopsOff
    /\ gauges = GaugesCold
NextLoops ==
    \/ ClientStep({1})
    \/ SyncStep
    \/ ExpiryStep
    \/ CleanupQuery \/ CleanupDelete \/ CleanupWrite
    \/ BulkStep
SpecLoops == InitLoops /\ [][NextLoops]_vars

\* The breaker on its own, called through call and call_async by
\* NumCallers concurrent callers whose functions succeed or fail
InitBreaker ==
    /\ now = 1
    /\ horizon = BreakerSpan
    /\ k_candidates = MaxK
    /\ store = [sid \in SandboxIds |-> NewSandbox("available")]
    /\ upstream = SandboxIds
    /\ req = [c \in Tasks |-> Idle]
    /\ grants = [sid \in SandboxIds |-> NoGrant]
    /\ cleanup_batch_size = MaxBatch
    /\ budget = BreakerCalls
    /\ RunsIdle
    /\ breaker \in {NewBreaker(F, T) : F \in 1..MaxThreshold, T \in 1..MaxTimeout}
    /\ calls = [c \in BreakerCallers |-> CallIdle]
    /\ loops = LoopsOff
    /\ gauges = GaugesCold
NextBreaker == BreakerStep \/ Tick
SpecBreaker == InitBreaker /\ [][NextBreaker]_vars

\* Cleanup over a table whose records are all pending_deletion, while other
\* callers use the breaker and their calls fail or succeed
InitOutage ==
    /\ now = 1
    /\ horizon = MaxTimeout
    /\ k_candidates = MaxK
    /\ store = [sid \in SandboxIds |->
                   [NewSandbox("pending_deletion") EXCEPT
                       !.allocated_to_track = 1, !.allocated_at = 1,
                       !.idempotency_key = 1, !.deletion_requested_at = 1]]
    /\ upstream = SandboxIds
    /\ req = [c \in Tasks |-> Idle]
    /\ grants = [sid \in SandboxIds |-> NoGrant]
    /\ cleanup_batch_size \in 1..MaxBatch
    /\ budget = MaxThreshold
    /\ RunsIdle
    /\ breaker \in {NewBreaker(F, MaxTimeout) : F \in 1..MaxThreshold}
    /\ calls = [c \in BreakerCallers |-> CallIdle]
    /\ loops = LoopsOff
    /\ gauges = GaugesCold
NextOutage == CleanupStep \/ BreakerStep \/ Tick
SpecOutage == InitOutage /\ [][NextOutage]_vars

\* The three loops as start_background_jobs creates them, over a pool with
\* one allocation past lab duration plus grace; a run may end in an
\* exception at any point, and stop_background_jobs may be called at any time
InitScheduler ==
    /\ now = expiry_threshold_seconds + 2
    /\ horizon = now
    /\ k_candidates = MaxK
    /\ store = [sid \in SandboxIds |->
                   IF sid = 1
                   THEN [NewSandbox("allocated") EXCEPT
                           !.allocated_to_track = 1, !.allocated_at = 1,
                           !.idempotency_key = 1]
                   ELSE NewSandbox("available")]
    /\ upstream = SandboxIds
    /\ req = [c \in Tasks |-> Idle]
    /\ grants = [sid \in SandboxIds |->
                    IF sid = 1 THEN [owner |-> 1, at |-> 1, double |-> FALSE]
                    ELSE NoGrant]
    /\ cleanup_batch_size = MaxBatch
    /\ budget = 0
    /\ RunsIdle
    /\ BreakerIdle
    /\ loops = LoopsStarted
    /\ gauges = GaugesCold
NextScheduler == (\E j \in Jobs : LoopStep(j)) \/ Shutdown
SpecScheduler == InitScheduler /\ [][NextScheduler]_vars

\* The event loop runs every task that can make a step
FairSpecScheduler ==
    /\ SpecScheduler
    /\ \A j \in Jobs :
          WF_vars(LoopTest(j) \/ LoopWake(j) \/ LoopRun(j) \/ LoopRunDone(j))

\* Requests for the metrics while the clock advances, the table's scan
\* succeeding or not; time.time() is far above the TTL when the process starts
InitGauges ==
    /\ now = MaxTtl
    /\ horizon = now + GaugeSpan
    /\ k_candidates = MaxK
    /\ store \in [SandboxIds -> {Absent, NewSandbox("available"), NewSandbox("stale")}]
    /\ upstream = SandboxIds
    /\ req = [c \in Tasks |-> Idle]
    /\ grants = [sid \in SandboxIds |-> NoGrant]
    /\ cleanup_batch_size = MaxBatch
    /\ budget = GaugeRequests
    /\ RunsIdle
    /\ BreakerIdle
    /\ loops = LoopsOff
    /\ gauges \in {_pool_gauges_cache(ttl) : ttl \in 1..MaxTtl}
NextGauges ==
    \/ \E force \in BOOLEAN, scan_raises \in BOOLEAN :
          UpdatePoolGauges(force, scan_raises)
    \/ Tick
SpecGauges == InitGauges /\ [][NextGauges]_vars

\* Concurrent client requests against a Store whose calls may raise
InitFaults == InitPool /\ horizon = now /\ budget = FaultRequests
NextFaults == ClientStep(Clients) \/ ClientRaise(Clients)
SpecFaults == InitFaults /\ [][NextFaults]_vars

\* Cleanup ticks over any table: Upstream may fail during the first tick and
\* answers every delete from the second tick on
NextRetry ==
    \/ CleanupQuery
    \/ CleanupDelete /\ (cleanup.runs > 0 => cleanup'.success)
    \/ CleanupWrite
    \/ CleanupSleep
SpecRetry == InitCleanup /\ [][NextRetry]_vars

\* cleanup_job starts a tick every interval and a tick runs to its end
FairSpecRetry == SpecRetry /\ WF_vars(NextRetry)

\* Sync ticks over any table, the listing request failing or not, while
\* other callers use the breaker and their calls fail or succeed
InitSyncOutage ==
    /\ InitTable(lab_duration_seconds + StoreSpan)
    /\ \A sid \in SandboxIds \ {1} : store[sid].status \in {"absent", "available"}
    /\ upstream \in SUBSET SandboxIds
    /\ cleanup_batch_size = MaxBatch
    /\ budget = MaxThreshold
    /\ RunsIdle
    /\ breaker \in {NewBreaker(F, MaxTimeout) : F \in 1..MaxThreshold}
    /\ calls = [c \in BreakerCallers |-> CallIdle]
    /\ loops = LoopsOff
    /\ gauges = GaugesCold
NextSyncOutage == SyncStep \/ SyncFetchRaise \/ BreakerStep
SpecSyncOutage == InitSyncOutage /\ [][NextSyncOutage]_vars

\* One client request and the expiry job over a table in any state, from the
\* time when the oldest allocations have just reached their lab duration
\* until they are past lab duration plus grace
InitWindow ==
    /\ now = lab_duration_seconds + StoreSpan
    /\ horizon = now + WindowSpan
    /\ k_candidates \in 1..MaxK
    /\ store \in [SandboxIds -> StoredItems(now)]
    /\ req = [c \in Tasks |-> Idle]
    /\ grants = [sid \in SandboxIds |->
                    IF store[sid].status = "allocated"
                    THEN [owner |-> store[sid].allocated_to_track,
                          at |-> store[sid].allocated_at, double |-> FALSE]
                    ELSE NoGrant]
    /\ upstream = SandboxIds
    /\ cleanup_batch_size = MaxBatch
    /\ budget = 1
    /\ JobsIdle
NextWindow == ClientStep({1}) \/ ExpiryStep \/ Tick
SpecWindow == InitWindow /\ [][NextWindow]_vars

\* ================================================================ claims
Available(st) == {sid \in Items(st) : st[sid].status = "available"}
Allocated(st) == {sid \in Items(st) : st[sid].status = "allocated"}

\* C1: no successful allocate hands out a sandbox that another owner still
\* holds (not released, deadline plus grace not passed)
C1_NoDoubleAllocation == \A sid \in SandboxIds : ~grants[sid].double

\* C2: a conditional write of atomic_allocate on a record that exists and is
\* available turns exactly that record into allocated, with the caller as owner,
\* the caller's time as allocated_at and the effective key as idempotency_key,
\* and the call returns it; on any other record the table is unchanged and
\* nothing is returned
C2_ConditionalAllocate ==
    [][\A c \in Tasks :
         (req[c].pc = "claim" /\ req'[c] # req[c])
         => LET r == req[c]
                sid == r.candidates[r.attempt + 1]
                pre == store[sid]
            IN  IF pre # Absent /\ pre.status = "available"
                THEN /\ store' = [store EXCEPT ![sid] =
                                    [pre EXCEPT !.status = "allocated",
                                                !.allocated_to_track = r.track_id,
                                                !.allocated_at = r.current_time,
                                                !.idempotency_key = r.idem_key]]
                     /\ r.track_id # NoOwner
                     /\ req'[c].outcome = "allocated" /\ req'[c].sandbox_id = sid
                ELSE /\ store' = store
                     /\ req'[c].outcome # "allocated"]_vars

C2_Witness ==
    \E c \in Tasks, sid \in SandboxIds :
        /\ req[c].outcome = "allocated" /\ req[c].sandbox_id = sid
        /\ req[c].current_time > lab_duration_seconds
        /\ store[sid].status = "allocated"
        /\ store[sid].allocated_at = req[c].current_time
        /\ \E other \in SandboxIds :
              other # sid /\ store[other].status \in {"absent", "pending_deletion"}

\* C3 (I2): no two distinct allocated records carry the same idempotency_key
C3_UniqueKeyAmongAllocated ==
    \A a, b \in Allocated(store) :
        a # b => store[a].idempotency_key # store[b].idempotency_key

\* C4: a task's allocate that follows its own successful allocate for the same
\* owner and key, with no release in between and before the deadline of the
\* sandbox it was given, returns that same sandbox
C4_SequentialIdempotency ==
    \A c \in Tasks :
        LET r == req[c] IN
        (/\ r.op = "allocate" /\ r.pc = "done" /\ r.prior # 0
         /\ r.current_time <= store[r.prior].allocated_at + lab_duration_seconds)
        => (Succeeded(r) /\ r.sandbox_id = r.prior)

\* C5: the step that answers an allocate from the idempotency lookup starts
\* from a task that was not scanning or claiming and leaves the table (hence
\* the number of available sandboxes) unchanged
C5_IdempotentHitNoWrite ==
    [][\A c \in Tasks :
         (req'[c] # req[c] /\ req'[c].outcome = "idempotent")
         => /\ Ready(req[c])
            /\ store' = store
            /\ Cardinality(Available(store')) = Cardinality(Available(store))]_vars

C5_Witness ==
    \E c \in Tasks : /\ req[c].outcome = "idempotent"
                     /\ store[req[c].sandbox_id].status = "allocated"
                     /\ Available(store) # {}

\* The burst is over: every request that was allowed has been started and has
\* returned
BurstDone == budget = 0 /\ \A c \in Tasks : Ready(req[c])
Callers == {c \in Tasks : req[c].pc = "done"}
Winners == {c \in Callers : Succeeded(req[c])}
BurstOutcome(n) ==
    /\ Cardinality(Winners) = n
    /\ \A a, b \in Winners : a # b => req[a].sandbox_id # req[b].sandbox_id
    /\ \A c \in Callers \ Winners : req[c].outcome = "NoSandboxesAvailable"

\* C6 as stated: for any K, N concurrent allocates by distinct owners on a pool
\* of P >= N available sandboxes end with min(N,P) successes on distinct
\* sandboxes and NoSandboxesAvailable for the rest
C6_BurstAnyK ==
    (BurstDone /\ Cardinality(Items(store)) >= Cardinality(Callers))
    => BurstOutcome(Min(Cardinality(Callers), Cardinality(Items(store))))

\* C6 amended: the same, for K >= N
C6_BurstEnoughCandidates ==
    (/\ BurstDone
     /\ Cardinality(Items(store)) >= Cardinality(Callers)
     /\ k_candidates >= Cardinality(Callers))
    => BurstOutcome(Min(Cardinality(Callers), Cardinality(Items(store))))

C6_Witness ==
    /\ BurstDone
    /\ Cardinality(Callers) >= 2
    /\ Cardinality(Items(store)) >= Cardinality(Callers)
    /\ k_candidates >= Cardinality(Callers)
    /\ Cardinality(Winners) = Cardinality(Callers)

\* C7: N concurrent allocates by distinct owners on a pool of P < N available
\* sandboxes with P <= K end with P successes on distinct sandboxes, N-P
\* NoSandboxesAvailable, and no sandbox left available
C7_HotContention ==
    (/\ BurstDone
     /\ Cardinality(Items(store)) < Cardinality(Callers)
     /\ Cardinality(Items(store)) <= k_candidates)
    => /\ BurstOutcome(Cardinality(Items(store)))
       /\ Available(store) = {}

C7_Witness ==
    /\ BurstDone
    /\ Cardinality(Items(store)) >= 2
    /\ Cardinality(Items(store)) < Cardinality(Callers)
    /\ Cardinality(Items(store)) <= k_candidates
    /\ Cardinality(Winners) = Cardinality(Items(store))
    /\ \E c \in Callers : req[c].outcome = "NoSandboxesAvailable"

C9_WrongOwner ==
    \A c \in Tasks :
        LET r == req[c] IN
        (/\ r.op = "release" /\ r.pre.status = "allocated"
         /\ r.pre.allocated_to_track # r.track_id)
        => /\ r.post = r.pre
           /\ r.outcome \in {"none", "NotOwner"}
           /\ r.pc = "done" => r.outcome = "NotOwner"

C9_Witness ==
    \E c \in Tasks :
        /\ req[c].op = "release" /\ req[c].pc = "done"
        /\ req[c].pre.status = "allocated"
        /\ req[c].pre.allocated_to_track # req[c].track_id
        /\ req[c].outcome = "NotOwner"
        /\ store[req[c].sandbox_id] = req[c].pre

\* C10: a release by the owner of a live allocation succeeds and leaves the
\* record pending_deletion; a release by the same owner that finds the record
\* already pending_deletion changes nothing and ends with NotOwner
C10_ReleaseTwice ==
    \A c \in Tasks :
        LET r == req[c] IN
        /\ (/\ r.op = "release" /\ r.pre.status = "allocated"
            /\ r.pre.allocated_to_track = r.track_id
            /\ r.pre.allocated_at > r.current_time - lab_duration_seconds)
           => (/\ r.outcome = "released" /\ r.post.status = "pending_deletion"
               /\ r.post.deletion_requested_at = r.current_time)
        /\ (/\ r.op = "release" /\ r.pre.status = "pending_deletion"
            /\ r.pre.allocated_to_track = r.track_id)
           => (/\ r.post = r.pre
               /\ store[r.sandbox_id] = r.pre
               /\ r.outcome \in {"none", "NotOwner"}
               /\ r.pc = "done" => r.outcome = "NotOwner")

C10_Witness ==
    \E c1, c2 \in Tasks :
        /\ c1 # c2
        /\ req[c1].outcome = "released"
        /\ req[c2].op = "release" /\ req[c2].pc = "done"
        /\ req[c2].outcome = "NotOwner"
        /\ req[c2].sandbox_id = req[c1].sandbox_id
        /\ req[c2].track_id = req[c1].track_id
        /\ req[c2].pre = req[c1].post
        /\ req[c2].current_time > req[c1].current_time
        /\ store[req[c2].sandbox_id].deletion_requested_at = req[c1].current_time

\* C11: a release by the owner of an allocation that is past its deadline plus
\* grace ends with AllocationExpired, whether the record is still allocated at
\* the conditional write or the expiry job has already made it pending_deletion
\* (the owner's grant is then still the one of that allocation: no release
\* has succeeded)
C11_ReleaseAfterExpiry ==
    \A c \in Tasks :
        LET r == req[c] IN
        (/\ r.op = "release" /\ r.pc = "done"
         /\ r.pre.allocated_to_track = r.track_id
         /\ r.pre.allocated_at # 0
         /\ r.current_time > r.pre.allocated_at + expiry_threshold_seconds
         /\ \/ r.pre.status = "allocated"
            \/ /\ r.pre.status = "pending_deletion"
               /\ grants[r.sandbox_id].owner = r.track_id
               /\ grants[r.sandbox_id].at = r.pre.allocated_at)
        => r.outcome = "AllocationExpired"

C14_ExpiryWithinInterval ==
    \A sid \in SandboxIds :
        store[sid].status = "allocated"
        => now <= store[sid].allocated_at + expiry_threshold_seconds + 1

C14_Witness ==
    \E sid \in SandboxIds :
        /\ store[sid].status = "pending_deletion"
        /\ grants[sid].owner = store[sid].allocated_to_track
        /\ grants[sid].at = store[sid].allocated_at
        /\ store[sid].deletion_requested_at
              = store[sid].allocated_at + expiry_threshold_seconds + 1
        /\ now > store[sid].deletion_requested_at
        /\ \E c \in Tasks : req[c].op = "release" /\ req[c].sandbox_id = sid
                            /\ req[c].pc = "done" /\ req[c].outcome # "released"

\* C12: a release returns success for sandbox s to owner o only if s was
\* allocated to o when the conditional write was made, and a release leaves a
\* sandbox that is allocated to another owner as it is
C12_ReleaseOnlyByOwner ==
    [][\A c \in Tasks :
         (Ready(req[c]) /\ req'[c] # req[c] /\ req'[c].op = "release")
         => LET sid == req'[c].sandbox_id
                o == req'[c].track_id
            IN  /\ req'[c].outcome = "released"
                   => /\ store[sid].status = "allocated"
                      /\ store[sid].allocated_to_track = o
                /\ (store[sid].status = "allocated" /\ store[sid].allocated_to_track # o)
                   => store'[sid] = store[sid]]_vars

C12_Witness ==
    \E c \in Tasks :
        /\ req[c].op = "release" /\ req[c].outcome = "released"
        /\ req[c].pre.allocated_to_track = req[c].track_id
        /\ store[req[c].sandbox_id].status = "pending_deletion"
        /\ sync.runs = MaxRuns
        /\ expiry.ran

\* C15: once ceil(|S|/B) cleanup runs have completed with every upstream delete
\* succeeding, every record of the set S that was pending_deletion at the start
\* has been removed from the table
C15_CleanupConverges ==
    (/\ ~cleanup.failed
     /\ cleanup.runs >= 1
     /\ cleanup.runs >= Ceil(Cardinality(cleanup.first), cleanup_batch_size))
    => \A sid \in cleanup.first : store[sid] = Absent

C15_Witness ==
    /\ ~cleanup.failed
    /\ Cardinality(cleanup.first) > cleanup_batch_size
    /\ cleanup.runs = Ceil(Cardinality(cleanup.first), cleanup_batch_size)
    /\ \A sid \in cleanup.first : store[sid] = Absent /\ sid \notin upstream

\* C16: a record leaves the table only in cleanup's write for that record after
\* its upstream delete returned success, or in a delete of an admin bulk delete
C16_RemovalOnlyAfterUpstreamDelete ==
    [][\A sid \in SandboxIds :
         (store[sid] # Absent /\ store'[sid] = Absent)
         => \/ /\ cleanup.pc = "write" /\ cleanup.sid = sid /\ cleanup.success
               /\ cleanup' # cleanup
            \/ /\ bulk.pc = "delete" /\ sid \in bulk.todo
               /\ bulk' # bulk]_vars

C16_Witness ==
    \E sid \in SandboxIds :
        /\ grants[sid] # NoGrant
        /\ store[sid] = Absent
        /\ sid \notin upstream
        /\ cleanup.pc = "idle" /\ cleanup.runs = MaxRuns /\ ~cleanup.failed
        /\ bulk.pc = "idle" /\ bulk.runs = MaxRuns - 1

\* C17: no put of a sync run lands on a record that is allocated,
\* pending_deletion or deletion_failed when the put is made
C17_SyncPreservation ==
    [][(sync.pc \in {"put", "putstale"} /\ sync' # sync)
       => store[sync.sid].status
             \notin {"allocated", "pending_deletion", "deletion_failed"}]_vars

\* C18: after a sync run with nothing else running, for the upstream listing U
\* of the run: every id of U that was absent, available or stale is available;
\* every record that was available with its id not in U is that record with
\* status stale; every other record is as it was
C18_SyncResult ==
    (sync.pc = "idle" /\ sync.runs >= 1)
    => \A sid \in SandboxIds :
          LET before == sync.start[sid]
              after == store[sid]
          IN  IF sid \in sync.listing
                 /\ before.status \in {"absent", "available", "stale"}
              THEN after # Absent /\ after.status = "available"
              ELSE IF sid \notin sync.listing /\ before.status = "available"
                   THEN after = [before EXCEPT !.status = "stale"]
                   ELSE after = before

C18_Witness ==
    /\ sync.pc = "idle" /\ sync.runs = 1
    /\ \E a, b \in SandboxIds :
          /\ a \in sync.listing /\ sync.start[a] = Absent
          /\ store[a].status = "available"
          /\ b \notin sync.listing /\ sync.start[b].status = "available"
          /\ store[b].status = "stale"

\* C19 (I5): every change of a record's status is one of the transitions of
\* the state diagram, removal by a bulk delete included
C19_OnlyDiagramTransitions ==
    [][\A sid \in SandboxIds :
         store'[sid].status # store[sid].status
         => \/ <<store[sid].status, store'[sid].status>> \in
                  {<<"absent", "available">>, <<"available", "allocated">>,
                   <<"allocated", "pending_deletion">>,
                   <<"pending_deletion", "absent">>,
                   <<"pending_deletion", "deletion_failed">>,
                   <<"available", "stale">>, <<"stale", "available">>}
            \/ /\ store'[sid] = Absent
               /\ bulk.pc = "delete" /\ bulk' # bulk]_vars

\* C20 (I3): every record that is allocated, pending_deletion or
\* deletion_failed has allocated_at > 0, and every record has one of the five
\* statuses
C20_AllocatedAtSet ==
    \A sid \in Items(store) :
        /\ store[sid].status \in {"available", "allocated", "pending_deletion",
                                  "stale", "deletion_failed"}
        /\ store[sid].status \in {"allocated", "pending_deletion", "deletion_failed"}
           => store[sid].allocated_at > 0

C20_Witness ==
    \E sid \in SandboxIds :
        /\ grants[sid] # NoGrant
        /\ store[sid].status = "deletion_failed"
        /\ store[sid].allocated_at = grants[sid].at
        /\ store[sid].deletion_retry_count = 1
        /\ cleanup.pc = "idle" /\ cleanup.runs = MaxRuns /\ cleanup.failed
        /\ expiry.ran

\* a step in which caller c starts a call, and one in which a call of c ends
\* with the given outcome
Entered(c) == calls'[c].n # calls[c].n
Completed(c, outcome) ==
    /\ calls'[c] # calls[c]
    /\ calls'[c].pc = "idle"
    /\ calls'[c].outcome = outcome

\* C21: the breaker starts CLOSED; in CLOSED no call is rejected, a success
\* leaves it CLOSED with failure_count 0, a failure adds one to failure_count
\* and opens the breaker exactly when the count equals the threshold, after at
\* least that many failures in a row, and nothing else moves it out of CLOSED
C21_ClosedContract ==
    /\ breaker.state = "closed"
    /\ [][breaker.state = "closed"
          => /\ \A c \in BreakerCallers :
                  /\ Entered(c) => calls'[c].outcome # "rejected"
                  /\ Completed(c, "ok")
                     => breaker'.state = "closed" /\ breaker'.failure_count = 0
                  /\ Completed(c, "failed")
                     => /\ breaker'.failure_count = breaker.failure_count + 1
                        /\ breaker'.state = "open"
                           <=> breaker'.failure_count = breaker.failure_threshold
                        /\ breaker'.state = "open"
                           => breaker'.streak >= breaker.failure_threshold
             /\ breaker'.state # "closed"
                => /\ breaker'.state = "open"
                   /\ \E c \in BreakerCallers : Completed(c, "failed")]_vars

C21_Witness ==
    /\ breaker.state = "open"
    /\ breaker.opened_from = "closed"
    /\ breaker.failure_threshold = MaxThreshold
    /\ breaker.failure_count = MaxThreshold
    /\ breaker.streak = MaxThreshold

\* C22: in OPEN a call made less than timeout_seconds after the breaker opened
\* is rejected and the breaker stays OPEN; a call made later is passed on and
\* moves the breaker to HALF_OPEN; the breaker leaves OPEN only in a step in
\* which a call is made, and is CLOSED after such a step only when that call
\* went through HALF_OPEN
C22_OpenContract ==
    [][breaker.state = "open"
       => /\ \A c \in BreakerCallers :
               Entered(c)
               => IF now - breaker.opened_at < breaker.timeout_seconds
                  THEN calls'[c].outcome = "rejected" /\ breaker'.state = "open"
                  ELSE calls'[c].outcome # "rejected" /\ calls'[c].probe
          /\ breaker'.state # "open"
             => \E c \in BreakerCallers : Entered(c) /\ calls'[c].probe]_vars

\* C23: while the call that moved the breaker to HALF_OPEN is in flight, no
\* other call is passed to the wrapped function and the breaker changes state
\* only when that call ends
C23_SingleProbe ==
    [][(/\ breaker.state = "half_open"
        /\ \E p \in BreakerCallers : calls[p].pc = "await" /\ calls[p].probe)
       => /\ \A c \in BreakerCallers :
               Entered(c) => calls'[c].outcome = "rejected"
          /\ breaker'.state # breaker.state
             => \E p \in BreakerCallers :
                   /\ calls[p].pc = "await" /\ calls[p].probe
                   /\ calls'[p].pc = "idle"]_vars

\* C24: when the call that moved the breaker to HALF_OPEN succeeds the breaker
\* is CLOSED with failure_count 0; when it fails the breaker is OPEN with the
\* timer started at that moment, and every call made less than
\* timeout_seconds after it is rejected
C24_ProbeOutcome ==
    [][/\ \A p \in BreakerCallers :
            (calls'[p] # calls[p] /\ calls'[p].probe /\ calls'[p].pc = "idle")
            => /\ calls'[p].outcome = "ok"
                  => breaker'.state = "closed" /\ breaker'.failure_count = 0
               /\ calls'[p].outcome = "failed"
                  => /\ breaker'.state = "open"
                     /\ breaker'.last_failure_time = now
                     /\ breaker'.opened_at = now
       /\ (/\ breaker.state = "open" /\ breaker.opened_from = "half_open"
           /\ now - breaker.opened_at < breaker.timeout_seconds)
          => \A c \in BreakerCallers :
                Entered(c) => calls'[c].outcome = "rejected"]_vars

\* C25: after one cleanup run over the records that were pending_deletion,
\* in which no upstream delete succeeded, at most cleanup_batch_size records
\* are deletion_failed
C25_FailingUpstreamBatch ==
    (/\ cleanup.pc = "idle" /\ cleanup.runs = 1
     /\ \A sid \in cleanup.first : store[sid] # Absent)
    => Cardinality({sid \in cleanup.first : store[sid].status = "deletion_failed"})
          <= cleanup_batch_size

\* C26: once cleanup's upstream deletes have failed failure_threshold times
\* in a row the breaker is OPEN
C26_BreakerTrips ==
    cleanup.streak >= breaker.failure_threshold => breaker.state = "open"

\* C27: a record whose upstream delete the breaker rejected is still
\* pending_deletion with its retry count unchanged
C27_AbortOnOpen ==
    \A sid \in cleanup.rejected :
        /\ store[sid].status = "pending_deletion"
        /\ store[sid].deletion_retry_count = 0

\* C28: once the shutdown event is set no loop begins a run, a loop inside
\* wait_for leaves it only by exiting, and every loop exits
C28_Shutdown ==
    /\ [][loops.shutdown
          => \A j \in Jobs :
                /\ loops'.pc[j] = "run" => loops.pc[j] = "run"
                /\ loops'.iter[j] = loops.iter[j]
                /\ (loops.pc[j] = "wait" /\ loops'.pc[j] # "wait")
                   => loops'.pc[j] = "exited"]_vars
    /\ loops.shutdown ~> (\A j \in Jobs : loops.pc[j] = "exited")

C28_Witness ==
    /\ loops.shutdown
    /\ \A j \in Jobs : loops.pc[j] = "exited"
    /\ loops.iter["sync_job"] = 1 /\ sync.runs = 1
    /\ loops.iter["cleanup_job"] = MaxRuns
    /\ loops.iter["auto_expiry_job"] = 0

\* C29: a run that ends in an exception is counted and leaves its loop in
\* wait_for with no client request touched; a loop leaves its run only for
\* wait_for, and leaves wait_for for another run while the event is not set
C29_LoopSurvivesFailure ==
    [][\A j \in Jobs :
         /\ loops'.errors[j] # loops.errors[j]
            => /\ loops'.errors[j] = loops.errors[j] + 1
               /\ loops.pc[j] = "run" /\ loops'.pc[j] = "wait"
               /\ req' = req
         /\ (loops.pc[j] = "run" /\ loops'.pc[j] # "run") => loops'.pc[j] = "wait"
         /\ (loops.pc[j] = "wait" /\ loops'.pc[j] # "wait" /\ ~loops.shutdown)
            => loops'.pc[j] = "run"]_vars

C29_Witness ==
    \E j \in Jobs :
        /\ loops.errors[j] = 1
        /\ loops.iter[j] = MaxRuns
        /\ loops.pc[j] = "run"
        /\ ~loops.shutdown

\* C30: a get returns the record exactly when the table holds it with status
\* allocated and allocated_to_track equal to the caller, fails with NotOwner
\* otherwise, and leaves the table as it is
C30_GetOwnedOnly ==
    [][\A c \in Tasks :
         (req'[c] # req[c] /\ req'[c].op = "get")
         => LET r == req'[c]
                item == store[r.sandbox_id]
                owned == /\ item # Absent
                         /\ item.status = "allocated"
                         /\ item.allocated_to_track = r.track_id
            IN  /\ r.outcome = IF owned THEN "ok" ELSE "NotOwner"
                /\ r.existing = IF owned THEN item ELSE Absent
                /\ store' = store]_vars

C30_Witness ==
    \E c \in Tasks :
        /\ req[c].op = "get" /\ req[c].outcome = "ok"
        /\ req[c].existing = store[req[c].sandbox_id]
        /\ req[c].existing.allocated_to_track = req[c].track_id

\* C31: update_pool_gauges enumerates the table exactly when it is forced or
\* at least the cache TTL has passed since the last completed enumeration; a
\* call inside the window changes neither gauges nor cache; and the window
\* opened by a completed enumeration holds no enumeration by an unforced
\* request other than the one that opened it.
C31_GaugeCache ==
    [][gauges'.requests # gauges.requests =>
         LET elapsed == now - gauges.last_update
             enumerated == gauges'.scans # gauges.scans
         IN  /\ enumerated <=>
                   (gauges'.force \/ elapsed >= gauges.cache_ttl_seconds)
             /\ ~enumerated =>
                   /\ gauges'.stats = gauges.stats
                   /\ gauges'.last_update = gauges.last_update
             /\ gauges'.outcome = "scanned" =>
                   /\ gauges'.last_update = now
                   /\ gauges'.stats = PoolStats(store)
             /\ gauges'.last_update # 0 => gauges'.window = 1]_vars

\* Three requests inside one window after the enumeration that opened it,
\* and the cache still holds that one enumeration
C31_Witness ==
    /\ gauges.requests >= 3
    /\ gauges.scans = 1
    /\ gauges.window = 1
    /\ ~gauges.force
    /\ gauges.outcome = "cached"
    /\ now > gauges.last_update

\* C32: an allocate call past the idempotency lookup fetches at most K
\* distinct candidates and writes nothing while fetching; with no candidate
\* it ends with NoSandboxesAvailable.  Every pass of its loop makes one
\* conditional write, on the next candidate and on no other record; a write
\* that succeeds ends the call with that sandbox; a write that fails moves to
\* the next candidate, or, on the last candidate, ends the call with
\* NoSandboxesAvailable in the same pass (as many writes as candidates, and
\* no sleep after the last).
C32_BoundedAttempts ==
    [][\A c \in Clients :
         LET r == req[c]
             q == req'[c]
         IN  /\ (r.pc = "scan" /\ q # r) =>
                   /\ store' = store
                   /\ Len(q.candidates) <= k_candidates
                   /\ \A i, j \in 1..Len(q.candidates) :
                         i # j => q.candidates[i] # q.candidates[j]
                   /\ IF q.candidates = <<>>
                      THEN q.pc = "done" /\ q.outcome = "NoSandboxesAvailable"
                      ELSE q.pc = "claim" /\ q.attempt = 0
             /\ (r.pc = "claim" /\ q # r) =>
                   LET n == Len(r.candidates)
                       candidate == r.candidates[r.attempt + 1]
                   IN  /\ r.attempt < n
                       /\ n <= k_candidates
                       /\ \A sid \in SandboxIds \ {candidate} : store'[sid] = store[sid]
                       /\ IF store[candidate].status = "available"
                          THEN /\ store'[candidate].status = "allocated"
                               /\ q.pc = "done" /\ q.outcome = "allocated"
                               /\ q.sandbox_id = candidate
                          ELSE /\ store' = store
                               /\ IF r.attempt + 1 < n
                                  THEN /\ q.pc = "claim"
                                       /\ q.attempt = r.attempt + 1
                                       /\ q.candidates = r.candidates
                                  ELSE /\ q.pc = "done"
                                       /\ q.outcome = "NoSandboxesAvailable"]_vars

\* A call whose first write collided and whose last candidate has been taken
\* as well: it is about to fail after as many writes as candidates
C32_Witness ==
    \E c \in Clients :
        /\ req[c].pc = "claim"
        /\ Len(req[c].candidates) = MaxK
        /\ req[c].attempt = MaxK - 1
        /\ \A i \in 1..MaxK : store[req[c].candidates[i]].status = "allocated"

C34_FailedIsRetried ==
    \A sid \in SandboxIds : (sid \in cleanup.first) ~> (store[sid] = Absent)

\* C35: a release that answers AllocationExpired made its conditional write
\* on a record that was, when the write was evaluated, allocated to the
\* caller with allocated_at <= current_time - lab_duration.
C35_ExpiredMeansDeadline ==
    \A c \in Clients :
        (req[c].op = "release" /\ req[c].pc = "done"
            /\ req[c].outcome = "AllocationExpired") =>
           /\ req[c].pre.status = "allocated"
           /\ req[c].pre.allocated_to_track = req[c].track_id
           /\ req[c].pre.allocated_at <= req[c].current_time - lab_duration_seconds

\* C36: a sync run whose fetch of the upstream listing is rejected by the
\* open breaker, or fails, is over with that step and has written nothing:
\* the table is as it was and no get or put of the run follows.
C36_FailedSyncWritesNothing ==
    [][(sync.pc = "idle" /\ sync' # sync
          /\ (sync'.error # "none"
                \/ (breaker.state = "open"
                      /\ ~_should_attempt_reset(breaker, now))))
       => /\ store' = store
          /\ sync'.pc = "idle"
          /\ sync'.runs = sync.runs + 1
          /\ sync'.error \in {"rejected", "raised"}]_vars

\* Two runs are over, the last one rejected by the open breaker, and the
\* table is as it was when the run before it started
C36_Witness ==
    /\ sync.pc = "idle"
    /\ sync.runs = MaxRuns
    /\ sync.error = "rejected"
    /\ breaker.state = "open"
    /\ Items(store) # {}

\* C37: every put of the expiry job lands on a record that is at that moment
\* allocated with allocated_at < current_time - (lab_duration + grace), and
\* leaves it pending_deletion with deletion_requested_at = current_time,
\* owner, allocated_at and every other field as they were; no other record
\* changes.
C37_ExpiryPutOnlyOrphans ==
    [][(expiry.pc = "put" /\ expiry' # expiry) =>
         \A sid \in SandboxIds :
            IF sid \in expiry.todo \ expiry'.todo
            THEN /\ store[sid].status = "allocated"
                 /\ store[sid].allocated_at # 0
                 /\ store[sid].allocated_at
                       < expiry.current_time - expiry_threshold_seconds
                 /\ store'[sid] =
                       [store[sid] EXCEPT
                           !.status = "pending_deletion",
                           !.deletion_requested_at = expiry.current_time]
            ELSE store'[sid] = store[sid]]_vars

\* C38: when an allocate call starts while the table holds a record that is
\* allocated, carries the call's effective idempotency key and is not past
\* deadline plus grace, the call returns such a record from the lookup and
\* writes nothing.
C38_LiveAllocationIsFound ==
    [][\A c \in Tasks :
         LET r == req[c]
             q == req'[c]
             live == {sid \in Items(store) :
                        /\ store[sid].status = "allocated"
                        /\ store[sid].idempotency_key = q.idem_key
                        /\ ~is_expired(store[sid], now, grace_period_minutes)}
         IN  (Ready(r) /\ q # r /\ q.op = "allocate" /\ live # {}) =>
                /\ q.pc = "done"
                /\ q.outcome = "idempotent"
                /\ q.sandbox_id \in live
                /\ store' = store]_vars

\* C39: a sync run never puts a record as available whose upstream account
\* is gone when the put lands (deleted by cleanup since the run fetched its
\* listing).
C39_SyncNeverRevivesDeleted ==
    [][(sync.pc = "put" /\ sync' # sync) => sync.sid \in upstream]_vars

\* C40: while a record is allocated with lab_duration <= now - allocated_at
\* <= lab_duration + grace, no step changes it; a release of it by its owner
\* fails its conditional write and, the record still being in that window at
\* the follow-up get, answers AllocationExpired; and an allocate of its owner
\* under its idempotency key is an idempotent hit on it (or on another live
\* allocation of that key, should the table hold two) and writes nothing.
C40_DeadlineWindow ==
    [][\A sid \in SandboxIds :
         LET sb == store[sid]
         IN  (/\ sb.status = "allocated" /\ sb.allocated_at # 0
              /\ lab_duration_seconds <= now - sb.allocated_at
              /\ now - sb.allocated_at <= expiry_threshold_seconds) =>
                /\ store'[sid] = sb
                /\ \A c \in Tasks :
                      LET r == req[c]
                          q == req'[c]
                      IN  /\ (Ready(r) /\ q # r /\ q.op = "release"
                                /\ q.sandbox_id = sid
                                /\ q.track_id = sb.allocated_to_track) =>
                                 (q.pc = "diag" /\ store' = store)
                          /\ (r.pc = "diag" /\ q # r /\ r.sandbox_id = sid
                                /\ r.track_id = sb.allocated_to_track) =>
                                 q.outcome = "AllocationExpired"
                          /\ (Ready(r) /\ q # r /\ q.op = "allocate"
                                /\ q.track_id = sb.allocated_to_track
                                /\ q.idem_key = sb.idempotency_key) =>
                                 /\ q.pc = "done"
                                 /\ q.outcome = "idempotent"
                                 /\ q.sandbox_id \in Items(store)
                                 /\ LET hit == store[q.sandbox_id]
                                    IN  /\ hit.status = "allocated"
                                        /\ hit.idempotency_key = q.idem_key
                                        /\ ~is_expired(hit, now, grace_period_minutes)
                                 /\ store' = store]_vars

====
